---------------------------- MODULE Spec2Model ----------------------------
(***************************************************************************)
(* Execution core of the flow editor: the queue executor                   *)
(* (QueueFlowExecutor), the graph executor (FlowExecutor) and the script   *)
(* runner (CodeExecutor).                                                  *)
(*                                                                         *)
(* JavaScript strings are sequences of one-character strings, so that      *)
(* String.prototype.split and parseInt are computed, not assumed.          *)
(* JavaScript numbers that may be NaN are records [nan, n].                *)
(***************************************************************************)
EXTENDS Integers, Sequences, FiniteSets

VARIABLES
    nodes,      \* the caller's node collection (CodeNode[]), in array order
    qpc,        \* createExecutionQueue: "idle" | "call" | "returned"
    queue,      \* createExecutionQueue: the returned string[]
    code,       \* executeCode: the script handed to it
    ctx,        \* executeCode: the ExecutionContext handed to it
    xpc,        \* executeCode: "idle" | "call" | "returned" | "raised"
    xres,       \* executeCode: the ExecutionResult the promise resolved to
    cval,       \* evaluateCondition: the value handed to it
    cpc,        \* evaluateCondition: "idle" | "call" | "returned"
    cond,       \* evaluateCondition: the boolean returned
    edges,          \* the caller's edge collection (Edge[]), in array order
    startNodeId,    \* FlowExecutor.executeFlow: the optional start id
    gpc,            \* FlowExecutor.executeFlow: "idle" | "call" | "loop" | "returned"
    executionPath,  \* FlowExecutor.executeFlow: its local executionPath
    visited,        \* FlowExecutor.executeFlow: its local visited set
    currentNodeId,  \* FlowExecutor.executeFlow: its local currentNodeId
    currentOutput,  \* FlowExecutor.executeFlow: its local currentOutput
    gres,           \* FlowExecutor.executeFlow: the FlowExecutionResult returned
    execCalls,      \* the calls of executeCode made by the run: <<node id, input>>
    mode,           \* QueueFlowExecutor: "idle" | "runAll" | "step" (the entry point called)
    rpc,            \* QueueFlowExecutor: the place the call has reached
    ri,             \* executeFlow: i; executeNodeStepByStep: currentStep
    rqueue,         \* the local executionQueue
    completedNodes, \* executeFlow: its local completedNodes
    logs,           \* executeFlow: its local logs
    finalOutput,    \* executeFlow: its local finalOutput
    result,         \* the NodeExecutionResult of the node being handled
    exc,            \* the message of the error being thrown or caught
    events,         \* the callback invocations made so far, in order
    dispatches,     \* the calls of executeNode made so far: <<node id, nodeIndex>>
    fetches,        \* the network requests issued so far: <<node id, template index>>
    throws,         \* how many callback invocations have raised so far
    rres,           \* executeFlow: the QueueExecutionResult returned
    sres,           \* executeNodeStepByStep: the {result, hasNext} returned
    response,       \* executeNode: what its fetch came to
    flow,           \* the store: isExecuting, currentNodeId, selectedNodeId of state.flow
    nodeData,       \* the store: data.isExecuting, hasError, output of each node
    currentStep,    \* ExecutionControls: its currentStep state
    tasks,          \* ExecutionControls: the handlers that wait on an await
    now,            \* Date.now()
    hasInitialized, \* FlowCanvas: its hasInitialized ref
    clicks          \* how many commands were issued so far

queueVars == <<qpc, queue>>

codeVars == <<code, ctx, xpc, xres, cval, cpc, cond>>

graphVars ==
    <<edges, startNodeId, gpc, executionPath, visited, currentNodeId, currentOutput,
      gres, execCalls>>

runVars ==
    <<mode, rpc, ri, rqueue, completedNodes, logs, finalOutput, result, exc, events,
      dispatches, fetches, throws, rres, sres, response>>

uiVars == <<flow, nodeData, currentStep, tasks, now, hasInitialized, clicks>>

vars == <<nodes, queueVars, codeVars, graphVars, runVars, uiVars>>

---------------------------------------------------------------------------
(* Bounds of the model *)

MaxQueueNodes == 4

MaxGraphNodes == 2

MaxGraphEdges == 3

MaxRunNodes == 3

\* callback invocations that may raise during one run
MaxThrows == 1

\* the largest currentStep handed to executeNodeStepByStep
MaxCursor == 4

\* the nodes of the store
MaxStoreNodes == 6

\* the nodes of the store ExecutionControls works on
MaxControlNodes == 2

\* the commands issued: clicks on the buttons of ExecutionControls and on nodes
MaxClicks == 3

\* the handlers of ExecutionControls started
MaxTasks == 2

\* the last millisecond of the clock
MaxClock == 5

\* the nodes of a list that is stepped through
MaxStepNodes == 6

---------------------------------------------------------------------------
(* Strings and numbers *)

Range(s) == {s[i] : i \in 1..Len(s)}

Num(k) == [nan |-> FALSE, n |-> k]

NaN == [nan |-> TRUE, n |-> 0]

\* a.id.split('-') : the segments between the separators
RECURSIVE Split(_, _)
Split(s, sep) ==
    IF \A i \in 1..Len(s) : s[i] # sep
    THEN <<s>>
    ELSE LET k == CHOOSE i \in 1..Len(s) :
                      s[i] = sep /\ \A j \in 1..(i - 1) : s[j] # sep
         IN <<SubSeq(s, 1, k - 1)>> \o Split(SubSeq(s, k + 1, Len(s)), sep)

WhiteSpace == {" "}

DecDigits == {"0", "1", "2", "3", "4", "5", "6", "7", "8", "9"}

HexDigits == DecDigits \cup {"a", "b", "c", "d", "e", "f", "A", "B", "C", "D", "E", "F"}

DigitVal(c) ==
    CASE c = "0" -> 0 [] c = "1" -> 1 [] c = "2" -> 2 [] c = "3" -> 3
      [] c = "4" -> 4 [] c = "5" -> 5 [] c = "6" -> 6 [] c = "7" -> 7
      [] c = "8" -> 8 [] c = "9" -> 9
      [] c \in {"a", "A"} -> 10 [] c \in {"b", "B"} -> 11
      [] c \in {"c", "C"} -> 12 [] c \in {"d", "D"} -> 13
      [] c \in {"e", "E"} -> 14 [] c \in {"f", "F"} -> 15

RECURSIVE TrimStart(_)
TrimStart(s) ==
    IF Len(s) > 0 /\ s[1] \in WhiteSpace THEN TrimStart(Tail(s)) ELSE s

\* the longest prefix of s made of the given digits
RECURSIVE DigitPrefix(_, _)
DigitPrefix(s, digits) ==
    IF Len(s) > 0 /\ s[1] \in digits
    THEN <<s[1]>> \o DigitPrefix(Tail(s), digits)
    ELSE <<>>

RECURSIVE DigitsValue(_, _)
DigitsValue(ds, radix) ==
    IF Len(ds) = 0 THEN 0
    ELSE DigitsValue(SubSeq(ds, 1, Len(ds) - 1), radix) * radix + DigitVal(ds[Len(ds)])

\* parseInt(string) with no radix argument (ECMAScript parseInt):
\* leading white space and a sign are skipped, a 0x prefix selects radix 16,
\* the longest digit prefix is converted, and no digit at all gives NaN.
ParseInt(str) ==
    LET t      == TrimStart(str)
        neg    == Len(t) > 0 /\ t[1] = "-"
        u      == IF Len(t) > 0 /\ t[1] \in {"+", "-"} THEN Tail(t) ELSE t
        hex    == Len(u) >= 2 /\ u[1] = "0" /\ u[2] \in {"x", "X"}
        body   == IF hex THEN SubSeq(u, 3, Len(u)) ELSE u
        radix  == IF hex THEN 16 ELSE 10
        ds     == DigitPrefix(body, IF hex THEN HexDigits ELSE DecDigits)
    IN IF Len(ds) = 0 THEN NaN
       ELSE Num((IF neg THEN -1 ELSE 1) * DigitsValue(ds, radix))

\* a - b on numbers
NumSub(a, b) == IF a.nan \/ b.nan THEN NaN ELSE Num(a.n - b.n)

---------------------------------------------------------------------------
(* Identifiers *)

InputNodeId == <<"i", "n", "p", "u", "t", "-", "n", "o", "d", "e">>

NodePrefix == <<"n", "o", "d", "e">>

\* `node-${token}` as FlowCanvas builds it
NodeId(token) == NodePrefix \o <<"-">> \o token

\* ids the queue derivation is exercised with
QueueIds ==
    { InputNodeId,
      NodeId(<<"2">>), NodeId(<<"1", "0">>),
      NodeId(<<"2", "x">>), NodeId(<<"0", "x", "1", "A">>),
      NodeId(<<"a", "b", "c">>), NodePrefix }

SeqsUpTo(S, n) == UNION {[1..k -> S] : k \in 0..n}

---------------------------------------------------------------------------
(* QueueFlowExecutor.createExecutionQueue *)

IsInputNode(node) == node.id = InputNodeId

\* parseInt(a.id.split('-')[1] || '0')
TimeOf(node) ==
    LET parts == Split(node.id, "-")
        seg   == IF Len(parts) >= 2 /\ Len(parts[2]) > 0 THEN parts[2] ELSE <<"0">>
    IN ParseInt(seg)

CompareByTime(a, b) == NumSub(TimeOf(a), TimeOf(b))

NotInputNode(node) == ~IsInputNode(node)

\* nodes.filter((node) => node.id !== 'input-node')
RECURSIVE FilterNotInput(_)
FilterNotInput(s) ==
    IF Len(s) = 0 THEN <<>>
    ELSE (IF NotInputNode(s[1]) THEN <<s[1]>> ELSE <<>>) \o FilterNotInput(Tail(s))

Sign(k) == IF k < 0 THEN -1 ELSE IF k > 0 THEN 1 ELSE 0

\* Array.prototype.sort's use of the comparator (CompareArrayElements):
\* a comparator result of NaN counts as +0
SortCompare(x, y) ==
    LET v == CompareByTime(x, y) IN IF v.nan THEN 0 ELSE Sign(v.n)

\* Insertion sort, scanning the sorted part from its right end: x goes
\* behind the last element that does not compare greater than it.
InsertFromRight(sorted, x) ==
    LET stop == {i \in 1..Len(sorted) :
                    /\ SortCompare(sorted[i], x) <= 0
                    /\ \A j \in (i + 1)..Len(sorted) : SortCompare(sorted[j], x) > 0}
        k    == IF stop = {} THEN 0 ELSE CHOOSE i \in stop : TRUE
    IN SubSeq(sorted, 1, k) \o <<x>> \o SubSeq(sorted, k + 1, Len(sorted))

RECURSIVE InsertionSort(_)
InsertionSort(s) ==
    IF Len(s) <= 1 THEN s
    ELSE InsertFromRight(InsertionSort(SubSeq(s, 1, Len(s) - 1)), s[Len(s)])

\* TimSort on an array shorter than one minimum run: the leading run is
\* counted (and reversed when strictly descending), the rest is inserted by
\* binary search.
Reverse(s) == [i \in 1..Len(s) |-> s[Len(s) + 1 - i]]

CountRun(s) ==
    IF Len(s) < 2 THEN Len(s)
    ELSE LET desc  == SortCompare(s[2], s[1]) < 0
             Ok(i) == IF desc THEN SortCompare(s[i], s[i - 1]) < 0
                      ELSE SortCompare(s[i], s[i - 1]) >= 0
         IN CHOOSE r \in 2..Len(s) :
                /\ \A i \in 3..r : Ok(i)
                /\ r < Len(s) => ~Ok(r + 1)

MakeRun(s) ==
    IF Len(s) >= 2 /\ SortCompare(s[2], s[1]) < 0
    THEN Reverse(SubSeq(s, 1, CountRun(s))) \o SubSeq(s, CountRun(s) + 1, Len(s))
    ELSE s

\* the number of elements of a[left+1 .. right] the pivot is placed behind
RECURSIVE BinarySearch(_, _, _, _)
BinarySearch(a, pivot, left, right) ==
    IF left >= right THEN left
    ELSE LET mid == left + ((right - left) \div 2)
         IN IF SortCompare(pivot, a[mid + 1]) < 0
            THEN BinarySearch(a, pivot, left, mid)
            ELSE BinarySearch(a, pivot, mid + 1, right)

RECURSIVE BinaryInsertionSort(_, _)
BinaryInsertionSort(a, start) ==
    IF start > Len(a) THEN a
    ELSE LET pivot == a[start]
             left  == BinarySearch(a, pivot, 0, start - 1)
         IN BinaryInsertionSort(
                SubSeq(a, 1, left) \o <<pivot>> \o SubSeq(a, left + 1, start - 1)
                    \o SubSeq(a, start + 1, Len(a)),
                start + 1)

TimSortShort(s) == BinaryInsertionSort(MakeRun(s), CountRun(s) + 1)

\* connectedNodes.sort(...): the arrays the sort can leave behind. Both
\* algorithms agree whenever the comparator is consistent; with a comparator
\* that returns NaN for some pairs the order is implementation-defined and
\* depends on the algorithm of the engine.
ArraySort(s) == {TimSortShort(s), InsertionSort(s)}

\* createExecutionQueue without its early return for a missing input node
CreateExecutionQueueNoGuard(ns) ==
    LET connectedNodes == FilterNotInput(ns)
    IN {[i \in 1..Len(sorted) |-> sorted[i].id] : sorted \in ArraySort(connectedNodes)}

\* the set of arrays createExecutionQueue may return for these nodes
CreateExecutionQueue(ns) ==
    IF \A i \in 1..Len(ns) : ~IsInputNode(ns[i])
    THEN {<<>>}
    ELSE LET inputNode      == ns[CHOOSE i \in 1..Len(ns) :
                                     IsInputNode(ns[i])
                                     /\ \A j \in 1..(i - 1) : ~IsInputNode(ns[j])]
             connectedNodes == FilterNotInput(ns)
         IN {<<inputNode.id>> \o [i \in 1..Len(sorted) |-> sorted[i].id] :
                sorted \in ArraySort(connectedNodes)}

---------------------------------------------------------------------------
(* JavaScript values. A string is a sequence of pieces of text. *)

JSValue(t, b, n, nan, items) ==
    [t |-> t, b |-> b, n |-> n, nan |-> nan, items |-> items]

JSBool(b) == JSValue("boolean", b, 0, FALSE, <<>>)

JSNum(k) == JSValue("number", FALSE, k, FALSE, <<>>)

JSNaN == JSValue("number", FALSE, 0, TRUE, <<>>)

JSStr(s) == JSValue("string", FALSE, 0, FALSE, s)

JSArr(elems) == JSValue("array", FALSE, 0, FALSE, elems)

JSNull == JSValue("null", FALSE, 0, FALSE, <<>>)

JSUndefined == JSValue("undefined", FALSE, 0, FALSE, <<>>)

\* a plain object such as {}
JSObj == JSValue("object", FALSE, 0, FALSE, <<>>)

\* an object or function of the host, known by its name
HostObject(name) == JSValue("object", FALSE, 0, FALSE, <<name>>)

HostFunction(name) == JSValue("function", FALSE, 0, FALSE, <<name>>)

\* the values scripts return and conditions are evaluated on
Values ==
    { JSBool(TRUE), JSBool(FALSE),
      JSNum(0), JSNum(1), JSNum(-1), JSNaN,
      JSStr(<<>>), JSStr(<<"x">>), JSStr(<<"0">>), JSStr(<<"false">>),
      JSArr(<<>>), JSArr(<<JSNum(0)>>),
      JSNull, JSUndefined, JSObj, HostFunction("f") }

---------------------------------------------------------------------------
(* CodeExecutor.evaluateCondition *)

\* evaluateCondition with the array test dropped: an array falls through
EvaluateConditionNoArray(output) ==
    IF output.t = "boolean" THEN output.b
    ELSE IF output.t = "number" THEN output.nan \/ output.n # 0
    ELSE IF output.t = "string" THEN Len(output.items) > 0
    ELSE IF output.t \in {"null", "undefined"} THEN FALSE
    ELSE TRUE

EvaluateCondition(output) ==
    IF output.t = "boolean" THEN output.b
    ELSE IF output.t = "number" THEN output.nan \/ output.n # 0
    ELSE IF output.t = "string" THEN Len(output.items) > 0
    ELSE IF output.t = "array" THEN Len(output.items) > 0
    ELSE IF output.t \in {"null", "undefined"} THEN FALSE
    ELSE TRUE

---------------------------------------------------------------------------
(* CodeExecutor.createSafeFunction and CodeExecutor.executeCode *)

\* A completion of a piece of JavaScript: it returns a value or throws one.
\* A thrown Error carries its message, any other thrown value is kept as is.
Normal(v) == [type |-> "normal", value |-> v, isError |-> FALSE, message |-> <<>>]

ThrowError(msg) ==
    [type |-> "throw", value |-> JSUndefined, isError |-> TRUE, message |-> msg]

ThrowValue(v) == [type |-> "throw", value |-> v, isError |-> FALSE, message |-> <<>>]

\* Number.prototype.toString for integers
DigitText(d) == <<"0", "1", "2", "3", "4", "5", "6", "7", "8", "9">>[d + 1]

RECURSIVE NatToString(_)
NatToString(k) ==
    IF k < 10 THEN <<DigitText(k)>>
    ELSE NatToString(k \div 10) \o <<DigitText(k % 10)>>

IntToString(k) == IF k < 0 THEN <<"-">> \o NatToString(-k) ELSE NatToString(k)

\* String(value)
RECURSIVE ToString(_)
ToString(v) ==
    IF v.t = "string" THEN v.items
    ELSE IF v.t = "boolean" THEN (IF v.b THEN <<"true">> ELSE <<"false">>)
    ELSE IF v.t = "number" THEN (IF v.nan THEN <<"NaN">> ELSE IntToString(v.n))
    ELSE IF v.t = "array"
         THEN (IF Len(v.items) = 0 THEN <<>>
               ELSE IF Len(v.items) = 1
                    THEN (IF v.items[1].t \in {"null", "undefined"} THEN <<>>
                          ELSE ToString(v.items[1]))
                    ELSE ToString(JSValue("array", FALSE, 0, FALSE,
                                          SubSeq(v.items, 1, Len(v.items) - 1)))
                         \o <<",">>
                         \o (IF v.items[Len(v.items)].t \in {"null", "undefined"} THEN <<>>
                             ELSE ToString(v.items[Len(v.items)])))
    ELSE IF v.t = "object" THEN <<"[object Object]">>
    ELSE IF v.t = "function" THEN <<"function ">> \o v.items
    ELSE <<v.t>>

\* error instanceof Error ? error.message : String(error)
ErrorMessage(c) == IF c.isError THEN c.message ELSE ToString(c.value)

\* the parameters createSafeFunction gives the compiled function
ParamNames ==
    <<"input", "variables", "console", "Math", "Date", "JSON", "Array", "Object",
      "String", "Number", "Boolean", "parseInt", "parseFloat", "isNaN", "isFinite">>

\* Object.values(safeContext), in the order of its keys
SafeContextValues ==
    <<HostObject("safeConsole"), HostObject("Math"), HostFunction("Date"),
      HostObject("JSON"), HostFunction("Array"), HostFunction("Object"),
      HostFunction("String"), HostFunction("Number"), HostFunction("Boolean"),
      HostFunction("parseInt"), HostFunction("parseFloat"), HostFunction("isNaN"),
      HostFunction("isFinite")>>

\* bindings of the global object a function made by new Function can read
GlobalNames == {"fetch", "Promise", "window"}

\* the functions found on the values of the safe context
MethodsOf(v) ==
    IF v = HostObject("safeConsole") THEN {"log", "error", "warn"}
    ELSE IF v = HostFunction("Date") THEN {"now", "parse"}
    ELSE IF v = HostObject("JSON") THEN {"stringify", "parse"}
    ELSE IF v = HostObject("Math") THEN {"random", "floor"}
    ELSE {}

\* func.bind(null, ...Object.values(safeContext)) called with (input, variables):
\* the bound values come first in the argument list, the call's own after them
CallArguments(context) == SafeContextValues \o <<context.input, context.variables>>

\* the value an identifier of the script body evaluates to
Lookup(name, context) ==
    IF \E i \in 1..Len(ParamNames) : ParamNames[i] = name
    THEN LET i    == CHOOSE k \in 1..Len(ParamNames) : ParamNames[k] = name
             args == CallArguments(context)
         IN Normal(IF i <= Len(args) THEN args[i] ELSE JSUndefined)
    ELSE IF name \in GlobalNames THEN Normal(HostFunction(name))
    ELSE ThrowError(<<name, " is not defined">>)

\* Scripts, by the shape of their text:
\*   syntax   text that does not parse
\*   lit      return <val>;
\*   ref      return <name>;
\*   call     <name>.<meth>(...); return <val>;
\*   throw    throw new Error(<msg>);
\*   throwv   throw <val>;
\*   resolve  return Promise.resolve(<val>);
\*   reject   return Promise.reject(new Error(<msg>));
\*   empty    no return statement
Script(kind, name, meth, val, msg) ==
    [kind |-> kind, name |-> name, meth |-> meth, val |-> val, msg |-> msg]

\* createSafeFunction: new Function(...) throws on text that does not parse,
\* and the catch rethrows it with a prefix
CreateSafeFunction(script) ==
    IF script.kind = "syntax"
    THEN ThrowError(<<"Code compilation error: ", "SyntaxError: ">> \o script.msg)
    ELSE Normal(JSUndefined)

\* running the compiled body: what it returns (a promise is described by
\* its settlement) or throws
RunBody(script, context) ==
    CASE script.kind = "lit" -> Normal(script.val)
      [] script.kind = "ref" -> Lookup(script.name, context)
      [] script.kind = "call" ->
            LET obj == Lookup(script.name, context)
            IN IF obj.type = "throw" THEN obj
               ELSE IF script.meth \in MethodsOf(obj.value) THEN Normal(script.val)
               ELSE ThrowError(<<script.name, ".", script.meth, " is not a function">>)
      [] script.kind = "throw" -> ThrowError(script.msg)
      [] script.kind = "throwv" -> ThrowValue(script.val)
      [] script.kind = "resolve" -> Normal(script.val)
      [] script.kind = "reject" -> ThrowError(script.msg)
      [] script.kind = "empty" -> Normal(JSUndefined)

ExecutionResult(success, output, hasError, error) ==
    [success |-> success, output |-> output, hasError |-> hasError, error |-> error]

\* executeCode whose try block starts after the compilation
ExecuteCodeCompileOutsideTry(script, context) ==
    LET func == CreateSafeFunction(script)
        body == RunBody(script, context)
    IN IF func.type = "throw" THEN func
       ELSE IF body.type = "throw"
            THEN Normal(ExecutionResult(FALSE, JSUndefined, TRUE, ErrorMessage(body)))
            ELSE Normal(ExecutionResult(TRUE, body.value, FALSE, <<>>))

\* executeCode: the completion of the call once its promise has settled.
\* `await func(...)` turns a rejected promise into a throw inside the try.
ExecuteCode(script, context) ==
    LET func  == CreateSafeFunction(script)
        tried == IF func.type = "throw" THEN func ELSE RunBody(script, context)
    IN IF tried.type = "throw"
       THEN Normal(ExecutionResult(FALSE, JSUndefined, TRUE, ErrorMessage(tried)))
       ELSE Normal(ExecutionResult(TRUE, tried.value, FALSE, <<>>))

NoResult == ExecutionResult(FALSE, JSUndefined, FALSE, <<>>)

NoScript == Script("empty", "", "", JSUndefined, <<>>)

\* the scripts executeCode is exercised with
ScriptNames == {"input", "variables", "console", "isNaN", "isFinite", "fetch", "undeclared"}

Scripts ==
    {Script("syntax", "", "", JSUndefined, <<"Unexpected token">>)}
    \cup {Script("lit", "", "", v, <<>>) : v \in Values}
    \cup {Script("ref", n, "", JSUndefined, <<>>) : n \in ScriptNames}
    \cup {Script("call", n, "log", JSStr(<<"x">>), <<>>) : n \in ScriptNames}
    \cup {Script("throw", "", "", JSUndefined, m) : m \in {<<>>, <<"boom">>}}
    \cup {Script("throwv", "", "", v, <<>>) : v \in {JSStr(<<"x">>), JSNull, JSNum(0)}}
    \cup {Script("resolve", "", "", v, <<>>) : v \in {JSNum(1), JSUndefined}}
    \cup {Script("reject", "", "", JSUndefined, <<"rejected">>)}
    \cup {Script("empty", "", "", JSUndefined, <<>>)}

\* a CodeNode: only id, data.label and data.code are read by the executors
Node(id, label, script) == [id |-> id, label |-> label, code |-> script]

MkNode(id) == Node(id, <<"L">>, NoScript)

Contexts == [input : {JSNull, JSNum(1), JSStr(<<"x">>)}, variables : {JSObj}]

---------------------------------------------------------------------------
(* FlowExecutor *)

\* null, undefined and '' are the falsy ids; they are all written <<>>
NullId == <<>>

Truthy(id) == Len(id) > 0

Edge(source, target) == [source |-> source, target |-> target]

\* a result that leaves finalOutput out
FlowExecutionResultNoOutput(success, path, final, hasError, error) ==
    [success |-> success, executionPath |-> path, finalOutput |-> JSUndefined,
     hasError |-> hasError, error |-> error]

FlowExecutionResult(success, path, final, hasError, error) ==
    [success |-> success, executionPath |-> path, finalOutput |-> final,
     hasError |-> hasError, error |-> error]

NoFlowResult == FlowExecutionResult(FALSE, <<>>, JSUndefined, FALSE, <<>>)

\* a lookup that falls back on the first node
FindNodeOrFirst(ns, id) ==
    IF \E i \in 1..Len(ns) : ns[i].id = id
    THEN CHOOSE i \in 1..Len(ns) : ns[i].id = id /\ \A j \in 1..(i - 1) : ns[j].id # id
    ELSE IF Len(ns) > 0 THEN 1 ELSE 0

\* nodes.find((n) => n.id === id): the index of the first such node, 0 if none
FindNode(ns, id) ==
    IF \E i \in 1..Len(ns) : ns[i].id = id
    THEN CHOOSE i \in 1..Len(ns) : ns[i].id = id /\ \A j \in 1..(i - 1) : ns[j].id # id
    ELSE 0

\* findStartNode taking the last node that no edge points to
FindStartNodeLast(ns, es) ==
    LET targetNodes == {es[i].target : i \in 1..Len(es)}
        starts      == {i \in 1..Len(ns) : ns[i].id \notin targetNodes}
    IN IF starts # {}
       THEN ns[CHOOSE i \in starts : \A j \in starts : i >= j].id
       ELSE NullId

\* findStartNode: the first node that no edge points to
FindStartNode(ns, es) ==
    LET targetNodes == {es[i].target : i \in 1..Len(es)}
        starts      == {i \in 1..Len(ns) : ns[i].id \notin targetNodes}
    IN IF starts # {}
       THEN ns[CHOOSE i \in starts : \A j \in starts : i <= j].id
       ELSE NullId

\* edges.filter((e) => e.source === currentNodeId)
RECURSIVE OutgoingEdges(_, _)
OutgoingEdges(es, id) ==
    IF Len(es) = 0 THEN <<>>
    ELSE (IF es[1].source = id THEN <<es[1]>> ELSE <<>>) \o OutgoingEdges(Tail(es), id)

\* findNextNode that gives up on more than two outgoing edges
FindNextNodeTwoOnly(id, es, output) ==
    LET outgoingEdges == OutgoingEdges(es, id)
        condition     == EvaluateCondition(output)
    IN IF Len(outgoingEdges) = 0 THEN NullId
       ELSE IF Len(outgoingEdges) = 1 THEN outgoingEdges[1].target
       ELSE IF Len(outgoingEdges) > 2 THEN NullId
       ELSE IF condition THEN outgoingEdges[1].target
       ELSE outgoingEdges[2].target

\* findNextNode that follows the second edge on a truthy output
FindNextNodeSwapped(id, es, output) ==
    LET outgoingEdges == OutgoingEdges(es, id)
        condition     == EvaluateCondition(output)
    IN IF Len(outgoingEdges) = 0 THEN NullId
       ELSE IF Len(outgoingEdges) = 1 THEN outgoingEdges[1].target
       ELSE IF condition THEN outgoingEdges[2].target
       ELSE outgoingEdges[1].target

FindNextNode(id, es, output) ==
    LET outgoingEdges == OutgoingEdges(es, id)
        condition     == EvaluateCondition(output)
    IN IF Len(outgoingEdges) = 0 THEN NullId
       ELSE IF Len(outgoingEdges) = 1 THEN outgoingEdges[1].target
       ELSE IF condition /\ Len(outgoingEdges) >= 1 THEN outgoingEdges[1].target
       ELSE IF ~condition /\ Len(outgoingEdges) >= 2 THEN outgoingEdges[2].target
       ELSE NullId

\* the loop test of executeFlow without the visited set
LoopContinuesNoVisited(id, seen) == Truthy(id)

\* while (currentNodeId && !visited.has(currentNodeId))
LoopContinues(id, seen) == Truthy(id) /\ id \notin seen

\* the script failure of a node ignored: the loop goes on with no output
AfterScriptIgnoreFailure(id, r, path) ==
    [returned |-> FALSE, res |-> NoFlowResult]

\* lines 52-56 and the catch: a failed result ends the run with the path so far
AfterScript(id, r, path) ==
    IF ~r.success
    THEN [returned |-> TRUE,
          res |-> FlowExecutionResult(FALSE, path, JSUndefined, TRUE,
                     <<"Node ">> \o id \o <<" execution failed: ">> \o
                        (IF r.hasError THEN r.error ELSE <<"undefined">>))]
    ELSE [returned |-> FALSE, res |-> NoFlowResult]

GraphIdA == <<"a">>

GraphIdB == <<"b">>

GraphIds == {GraphIdA, GraphIdB}

\* the scripts the nodes of a graph carry
GraphScripts ==
    { Script("lit", "", "", JSBool(TRUE), <<>>),
      Script("lit", "", "", JSNum(0), <<>>),
      Script("ref", "input", "", JSUndefined, <<>>),
      Script("throw", "", "", JSUndefined, <<"boom">>) }

---------------------------------------------------------------------------
(* QueueFlowExecutor: records *)

SystemId == <<"system">>

NumEndpoints == 4

\* API_ENDPOINTS: name and method of each call template
EndpointNames ==
    <<"Health Check", "Basic Function Test", "Library Test", "Stdout Capture Test">>

EndpointMethods == <<"GET", "POST", "POST", "POST">>

\* JavaScript's %: the result has the sign of the dividend
JSRemainder(a, b) == IF a >= 0 THEN a % b ELSE -((-a) % b)

\* the template index taken from the position itself
ApiIndexNoSkip(nodeIndex) == JSRemainder(nodeIndex, NumEndpoints)

\* (nodeIndex - 1) % this.API_ENDPOINTS.length
ApiIndex(nodeIndex) == JSRemainder(nodeIndex - 1, NumEndpoints)

NodeExecutionResult(success, output, hasError, error, resultLogs) ==
    [success |-> success, output |-> output, hasError |-> hasError, error |-> error,
     logs |-> resultLogs]

NoNodeResult == NodeExecutionResult(FALSE, JSUndefined, FALSE, <<>>, <<>>)

ExecutionLog(nodeId, nodeName, type, message, data) ==
    [nodeId |-> nodeId, nodeName |-> nodeName, type |-> type, message |-> message,
     data |-> data]

NoLog == ExecutionLog(<<>>, <<>>, "", <<>>, JSUndefined)

QueueExecutionResult(success, q, completed, final, hasError, error, ls) ==
    [success |-> success, executionQueue |-> q, completedNodes |-> completed,
     finalOutput |-> final, hasError |-> hasError, error |-> error, logs |-> ls]

NoQueueResult == QueueExecutionResult(FALSE, <<>>, <<>>, JSUndefined, FALSE, <<>>, <<>>)

StepResult(res, hasNext) == [result |-> res, hasNext |-> hasNext]

NoStepResult == StepResult(NoNodeResult, FALSE)

\* one invocation of a callback and whether it raised
Event(cb, nodeId, res, log, threw) ==
    [cb |-> cb, nodeId |-> nodeId, result |-> res, log |-> log, threw |-> threw]

\* the message of the Error a callback raises
CallbackError == <<"callback failed">>

\* { status: 'initialized', timestamp: new Date().toISOString() }
InitializedPayload == HostObject("initialized")

\* the decoded body of a response
ResponseData == HostObject("data")

\* What a request comes to: the fetch is rejected, or a response arrives with
\* a status and a body that decodes as JSON or does not.
FetchOutcome(rejected, status, statusText, jsonOk) ==
    [rejected |-> rejected, status |-> status, statusText |-> statusText,
     jsonOk |-> jsonOk]

FetchOutcomes ==
    { FetchOutcome(TRUE, 0, "", FALSE),
      FetchOutcome(FALSE, 200, "OK", TRUE),
      FetchOutcome(FALSE, 200, "OK", FALSE),
      FetchOutcome(FALSE, 500, "Internal Server Error", TRUE),
      FetchOutcome(FALSE, 500, "Internal Server Error", FALSE) }

\* no fetch has settled in this call of executeNode
NoResponse == FetchOutcome(FALSE, 0, "", FALSE)

\* response.ok
ResponseOk(o) == o.status >= 200 /\ o.status <= 299

\* lines 403-413: await fetch, await response.json(), then the status test
FetchCompletion(o) ==
    IF o.rejected THEN ThrowError(<<"Failed to fetch">>)
    ELSE IF ~o.jsonOk THEN ThrowError(<<"Unexpected token in JSON">>)
    ELSE IF ~ResponseOk(o)
    THEN ThrowError(<<"API request failed: ">> \o IntToString(o.status)
                        \o <<" ", o.statusText>>)
    ELSE Normal(ResponseData)

\* executionQueue.indexOf(id): the first index of the id, -1 when it is absent
IndexOf(q, id) ==
    IF \E i \in 1..Len(q) : q[i] = id
    THEN (CHOOSE i \in 1..Len(q) : q[i] = id /\ \A j \in 1..(i - 1) : q[j] # id) - 1
    ELSE 0 - 1

\* executionQueue[i] for a JavaScript index: undefined outside the array
QueueAt(q, i) == IF i >= 0 /\ i < Len(q) THEN q[i + 1] ELSE NullId

\* hasNext with the bound taken one too far
HasNextInclusive(step, q) == step + 1 <= Len(q)

\* currentStep + 1 < executionQueue.length
HasNext(step, q) == step + 1 < Len(q)

\* the step entry without the test for a cursor past the end
PastEndNever(step, q) == FALSE

\* currentStep >= executionQueue.length
PastEnd(step, q) == step >= Len(q)

RunIds == {InputNodeId, NodeId(<<"1">>), NodeId(<<"2">>)}

LabelOf(id) == IF id = InputNodeId THEN <<"Input Node">> ELSE <<"API Node">>

RunNodes == {Node(id, LabelOf(id), NoScript) : id \in RunIds}

\* The node lists the entry points are called with: the entry node, when
\* there is one, is the first node and the nodes added later follow it.
NodeLists(max) ==
    LET added == SeqsUpTo({n \in RunNodes : ~IsInputNode(n)}, max)
    IN added \cup { <<Node(InputNodeId, LabelOf(InputNodeId), NoScript)>> \o s :
                       s \in {a \in added : Len(a) < max} }

RunNodeLists == NodeLists(MaxRunNodes)

StepNodeLists == NodeLists(MaxStepNodes)

---------------------------------------------------------------------------
(* Specifications *)

QueueIdle == qpc = "idle" /\ queue = <<>>

CodeIdle ==
    /\ code = NoScript
    /\ ctx = [input |-> JSNull, variables |-> JSObj]
    /\ xpc = "idle"
    /\ xres = NoResult
    /\ cval = JSUndefined
    /\ cpc = "idle"
    /\ cond = FALSE

GraphIdle ==
    /\ edges = <<>>
    /\ startNodeId = NullId
    /\ gpc = "idle"
    /\ executionPath = <<>>
    /\ visited = {}
    /\ currentNodeId = NullId
    /\ currentOutput = JSNull
    /\ gres = NoFlowResult
    /\ execCalls = <<>>

\* initialState of the store, and the components before they mount
NoNodeData == [isExecuting |-> FALSE, hasError |-> FALSE, hasOutput |-> FALSE]

InitialFlow ==
    [isExecuting |-> FALSE, currentNodeId |-> NullId, selectedNodeId |-> NullId,
     executionPath |-> <<>>]

UiIdle ==
    /\ flow = InitialFlow
    /\ nodeData = <<>>
    /\ currentStep = 0
    /\ tasks = <<>>
    /\ now = 1
    /\ hasInitialized = FALSE
    /\ clicks = 0

RunIdle ==
    /\ mode = "idle"
    /\ rpc = "idle"
    /\ ri = 0
    /\ rqueue = <<>>
    /\ completedNodes = <<>>
    /\ logs = <<>>
    /\ finalOutput = JSNull
    /\ result = NoNodeResult
    /\ exc = <<>>
    /\ events = <<>>
    /\ dispatches = <<>>
    /\ fetches = <<>>
    /\ throws = 0
    /\ rres = NoQueueResult
    /\ sres = NoStepResult
    /\ response = NoResponse

\* createExecutionQueue as a function of the nodes
QueueInit ==
    /\ nodes \in SeqsUpTo({MkNode(id) : id \in QueueIds}, MaxQueueNodes)
    /\ qpc = "call"
    /\ queue = <<>>
    /\ CodeIdle
    /\ GraphIdle
    /\ RunIdle
    /\ UiIdle

\* createExecutionQueue sorting the array it was given
BuildQueueSortsCaller ==
    /\ qpc = "call"
    /\ \E sorted \in ArraySort(nodes) :
          /\ nodes' = sorted
          /\ queue' \in CreateExecutionQueue(sorted)
    /\ qpc' = "returned"
    /\ UNCHANGED <<uiVars, runVars, codeVars, graphVars>>

BuildQueue ==
    /\ qpc = "call"
    /\ \E q \in CreateExecutionQueue(nodes) : queue' = q
    /\ qpc' = "returned"
    /\ UNCHANGED <<nodes, uiVars, runVars, codeVars, graphVars>>

QueueNext == BuildQueue

SpecQueue == QueueInit /\ [][QueueNext]_vars

\* executeCode and evaluateCondition as functions of their arguments
CodeInit ==
    /\ nodes = <<>>
    /\ QueueIdle
    /\ code \in Scripts
    /\ ctx \in Contexts
    /\ xpc = "call"
    /\ xres = NoResult
    /\ cval \in Values
    /\ cpc = "call"
    /\ cond = FALSE
    /\ GraphIdle
    /\ RunIdle
    /\ UiIdle

RunExecuteCode ==
    /\ xpc = "call"
    /\ LET c == ExecuteCode(code, ctx)
       IN IF c.type = "normal"
          THEN xpc' = "returned" /\ xres' = c.value
          ELSE xpc' = "raised" /\ xres' = xres
    /\ UNCHANGED <<nodes, uiVars, runVars, queueVars, graphVars, code, ctx, cval, cpc, cond>>

RunEvaluateCondition ==
    /\ cpc = "call"
    /\ cond' = EvaluateCondition(cval)
    /\ cpc' = "returned"
    /\ UNCHANGED <<nodes, uiVars, runVars, queueVars, graphVars, code, ctx, xpc, xres, cval>>

CodeNext == RunExecuteCode \/ RunEvaluateCondition

SpecCode == CodeInit /\ [][CodeNext]_vars

\* FlowExecutor.executeFlow on a graph
GraphInit ==
    /\ nodes \in SeqsUpTo({Node(id, <<"L">>, s) : id \in GraphIds, s \in GraphScripts},
                          MaxGraphNodes)
    /\ edges \in SeqsUpTo({Edge(s, d) : s \in GraphIds, d \in GraphIds}, MaxGraphEdges)
    /\ startNodeId \in {NullId} \cup GraphIds
    /\ gpc = "call"
    /\ executionPath = <<>>
    /\ visited = {}
    /\ currentNodeId = NullId
    /\ currentOutput = JSNull
    /\ gres = NoFlowResult
    /\ execCalls = <<>>
    /\ QueueIdle
    /\ CodeIdle
    /\ RunIdle
    /\ UiIdle

\* lines 18-29: the locals are set up and the start node is chosen
GraphCall ==
    /\ gpc = "call"
    /\ LET start == IF Truthy(startNodeId) THEN startNodeId
                    ELSE FindStartNode(nodes, edges)
       IN /\ currentNodeId' = start
          /\ IF ~Truthy(start)
             THEN /\ gpc' = "returned"
                  /\ gres' = FlowExecutionResult(FALSE, <<>>, JSUndefined, TRUE,
                                                 <<"No start node found">>)
             ELSE /\ gpc' = "loop"
                  /\ gres' = gres
    /\ UNCHANGED <<nodes, uiVars, runVars, queueVars, codeVars, edges, startNodeId, executionPath,
                   visited, currentOutput, execCalls>>

\* lines 32-67: one iteration of the loop, with the catch of lines 74-80
GraphIterate ==
    /\ gpc = "loop"
    /\ LoopContinues(currentNodeId, visited)
    /\ visited' = visited \cup {currentNodeId}
    /\ executionPath' = Append(executionPath, currentNodeId)
    /\ LET k == FindNode(nodes, currentNodeId)
       IN IF k = 0
          THEN /\ gpc' = "returned"
               /\ gres' = FlowExecutionResult(FALSE, executionPath', JSUndefined, TRUE,
                             <<"Node ">> \o currentNodeId \o <<" not found">>)
               /\ UNCHANGED <<currentNodeId, currentOutput, execCalls>>
          ELSE LET context == [input |-> currentOutput, variables |-> JSObj]
                   c       == ExecuteCode(nodes[k].code, context)
               IN /\ execCalls' = Append(execCalls, <<currentNodeId, currentOutput>>)
                  /\ IF c.type = "throw"
                     THEN /\ gpc' = "returned"
                          /\ gres' = FlowExecutionResult(FALSE, executionPath',
                                        JSUndefined, TRUE, ErrorMessage(c))
                          /\ UNCHANGED <<currentNodeId, currentOutput>>
                     ELSE LET after == AfterScript(currentNodeId, c.value, executionPath')
                          IN IF after.returned
                             THEN /\ gpc' = "returned"
                                  /\ gres' = after.res
                                  /\ UNCHANGED <<currentNodeId, currentOutput>>
                             ELSE /\ gpc' = "loop"
                                  /\ gres' = gres
                                  /\ currentOutput' = c.value.output
                                  /\ currentNodeId' =
                                        FindNextNode(currentNodeId, edges, c.value.output)
    /\ UNCHANGED <<nodes, uiVars, runVars, queueVars, codeVars, edges, startNodeId>>

\* lines 69-73: the loop has ended
GraphReturn ==
    /\ gpc = "loop"
    /\ ~LoopContinues(currentNodeId, visited)
    /\ gpc' = "returned"
    /\ gres' = FlowExecutionResult(TRUE, executionPath, currentOutput, FALSE, <<>>)
    /\ UNCHANGED <<nodes, uiVars, runVars, queueVars, codeVars, edges, startNodeId, executionPath,
                   visited, currentNodeId, currentOutput, execCalls>>

GraphNext == GraphCall \/ GraphIterate \/ GraphReturn

SpecGraph == GraphInit /\ [][GraphNext]_vars

\* scripts that return, with an output of either truth class
ReturningScripts ==
    { Script("lit", "", "", JSBool(TRUE), <<>>),
      Script("lit", "", "", JSNum(0), <<>>) }

\* FlowExecutor.executeFlow on a graph whose scripts all return
GraphLiveInit ==
    /\ nodes \in SeqsUpTo({Node(id, <<"L">>, s) : id \in GraphIds, s \in ReturningScripts},
                          MaxGraphNodes)
    /\ edges \in SeqsUpTo({Edge(s, d) : s \in GraphIds, d \in GraphIds}, MaxGraphEdges)
    /\ startNodeId \in {NullId} \cup GraphIds
    /\ gpc = "call"
    /\ executionPath = <<>>
    /\ visited = {}
    /\ currentNodeId = NullId
    /\ currentOutput = JSNull
    /\ gres = NoFlowResult
    /\ execCalls = <<>>
    /\ QueueIdle
    /\ CodeIdle
    /\ RunIdle
    /\ UiIdle

\* every script invocation returns: a run that can take a step takes one
SpecGraphLive == GraphLiveInit /\ [][GraphNext]_vars /\ WF_vars(GraphNext)

\* QueueFlowExecutor: the state both entry points start from
RunStart ==
    /\ rpc = "call"
    /\ rqueue = <<>>
    /\ completedNodes = <<>>
    /\ logs = <<>>
    /\ finalOutput = JSNull
    /\ result = NoNodeResult
    /\ exc = <<>>
    /\ events = <<>>
    /\ dispatches = <<>>
    /\ fetches = <<>>
    /\ throws = 0
    /\ rres = NoQueueResult
    /\ sres = NoStepResult
    /\ response = NoResponse
    /\ QueueIdle
    /\ CodeIdle
    /\ GraphIdle
    /\ UiIdle

\* nodeId and node of the position the call is at
CurrentId == QueueAt(rqueue, ri)

CurrentNode == nodes[FindNode(nodes, CurrentId)]

\* Whether the callback invoked now raises. The step entry hands executeNode
\* an addLog that does nothing.
ThrowChoices == IF mode = "runAll" /\ throws < MaxThrows THEN {FALSE, TRUE} ELSE {FALSE}

\* addLog handing the record to onLog without keeping it
\* addLog that keeps the record and hands it to nobody
AddLogNotStreamed(log, threw, okPc, throwPc) ==
    /\ logs' = IF mode = "runAll" THEN Append(logs, log) ELSE logs
    /\ rpc' = okPc
    /\ UNCHANGED <<events, throws, exc>>

AddLogNotKept(log, threw, okPc, throwPc) ==
    IF mode = "runAll"
    THEN /\ logs' = logs
         /\ events' = Append(events, Event("onLog", log.nodeId, NoNodeResult, log, threw))
         /\ throws' = IF threw THEN throws + 1 ELSE throws
         /\ exc' = IF threw THEN CallbackError ELSE exc
         /\ rpc' = IF threw THEN throwPc ELSE okPc
    ELSE /\ rpc' = okPc
         /\ UNCHANGED <<logs, events, throws, exc>>

\* addLog: the record is pushed, then onLog is invoked with it; the call goes
\* on at okPc, or at throwPc with the error onLog raised
AddLog(log, threw, okPc, throwPc) ==
    IF mode = "runAll"
    THEN /\ logs' = Append(logs, log)
         /\ events' = Append(events, Event("onLog", log.nodeId, NoNodeResult, log, threw))
         /\ throws' = IF threw THEN throws + 1 ELSE throws
         /\ exc' = IF threw THEN CallbackError ELSE exc
         /\ rpc' = IF threw THEN throwPc ELSE okPc
    ELSE /\ rpc' = okPc
         /\ UNCHANGED <<logs, events, throws, exc>>

\* lines 197-226: the queue is built and the leading record is added
RunAllCall ==
    /\ mode = "runAll"
    /\ rpc = "call"
    /\ \E q \in CreateExecutionQueue(nodes), threw \in ThrowChoices :
          /\ rqueue' = q
          /\ AddLog(ExecutionLog(SystemId, <<"System">>, "info",
                       <<"Starting workflow execution with ">> \o IntToString(Len(q))
                           \o <<" nodes">>, JSUndefined),
                    threw, "for", "rejected")
    /\ ri' = 0
    /\ UNCHANGED <<nodes, uiVars, queueVars, codeVars, graphVars, mode, response, completedNodes,
                   finalOutput, result, dispatches, fetches, rres, sres>>

\* lines 229-243: the loop test holds; the node is looked up and its start
\* record is added
LogExecuting ==
    /\ mode = "runAll"
    /\ rpc = "for"
    /\ ri < Len(rqueue)
    /\ \E threw \in ThrowChoices :
          IF FindNode(nodes, CurrentId) = 0
          THEN /\ AddLog(ExecutionLog(CurrentId, <<"Unknown">>, "error",
                            <<"Node not found in workflow">>, JSUndefined),
                         threw, "for", "outerCatch")
               /\ ri' = IF threw THEN ri ELSE ri + 1
          ELSE /\ AddLog(ExecutionLog(CurrentId, CurrentNode.label, "info",
                            <<"Executing node: ">> \o CurrentNode.label, JSUndefined),
                         threw, "onNodeStart", "outerCatch")
               /\ ri' = ri
    /\ UNCHANGED <<nodes, uiVars, queueVars, codeVars, graphVars, mode, response, rqueue, completedNodes,
                   finalOutput, result, dispatches, fetches, rres, sres>>

\* lines 245-248: onNodeStart is invoked, then executeNode is called
OnNodeStart ==
    /\ mode = "runAll"
    /\ rpc = "onNodeStart"
    /\ \E threw \in ThrowChoices :
          /\ events' = Append(events,
                              Event("onNodeStart", CurrentId, NoNodeResult, NoLog, threw))
          /\ throws' = IF threw THEN throws + 1 ELSE throws
          /\ exc' = IF threw THEN CallbackError ELSE exc
          /\ rpc' = IF threw THEN "outerCatch" ELSE "executeNode"
          /\ dispatches' = IF threw THEN dispatches
                           ELSE Append(dispatches, <<CurrentId, ri>>)
    /\ response' = NoResponse
    /\ UNCHANGED <<nodes, uiVars, queueVars, codeVars, graphVars, mode, ri, rqueue,
                   completedNodes, logs, finalOutput, result, fetches, rres, sres>>

\* executeFlow without the try/catch inside its loop
CallerCatchOuter == IF mode = "runAll" THEN "outerCatch" ELSE "rejected"

\* an error leaving executeNode sends the loop back to its test
CallerCatchRetry == IF mode = "runAll" THEN "for" ELSE "rejected"

\* Where an error leaving executeNode is caught; the step entry has no handler
\* of its own.
CallerCatch == IF mode = "runAll" THEN "innerCatch" ELSE "rejected"

\* lines 358-366: executeNode on the entry node
ExecuteNodeInput ==
    /\ rpc = "executeNode"
    /\ IsInputNode(CurrentNode)
    /\ \E threw \in ThrowChoices :
          /\ AddLog(ExecutionLog(CurrentId, CurrentNode.label, "info",
                       <<"Input node initialized">>, JSUndefined),
                    threw, "executed", CallerCatch)
          /\ result' = IF threw THEN result
                       ELSE NodeExecutionResult(TRUE, InitializedPayload, FALSE, <<>>,
                                                << <<"Input node initialized">> >>)
    /\ UNCHANGED <<nodes, uiVars, queueVars, codeVars, graphVars, mode, response, ri, rqueue,
                   completedNodes, finalOutput, dispatches, fetches, rres, sres>>

\* lines 368-377: the call template is chosen by position
ExecuteNodeEndpoint ==
    /\ rpc = "executeNode"
    /\ ~IsInputNode(CurrentNode)
    /\ LET apiIndex == ApiIndex(ri)
       IN IF apiIndex < 0
          THEN \* endpoint is undefined and reading its name raises
               /\ exc' = <<"Cannot read properties of undefined">>
               /\ rpc' = CallerCatch
               /\ UNCHANGED <<logs, events, throws>>
          ELSE \E threw \in ThrowChoices :
                  AddLog(ExecutionLog(CurrentId, CurrentNode.label, "info",
                            <<"Using API endpoint: ", EndpointNames[apiIndex + 1]>>,
                            JSUndefined),
                         threw, "request", CallerCatch)
    /\ UNCHANGED <<nodes, uiVars, queueVars, codeVars, graphVars, mode, response, ri, rqueue,
                   completedNodes, finalOutput, result, dispatches, fetches, rres, sres>>

\* the request issued twice
ExecuteNodeRequestTwice ==
    /\ rpc = "request"
    /\ LET apiIndex == ApiIndex(ri)
       IN \E threw \in ThrowChoices :
             /\ AddLog(ExecutionLog(CurrentId, CurrentNode.label, "info",
                          <<"Making ", EndpointMethods[apiIndex + 1], " request">>,
                          JSUndefined),
                       threw, "fetch", "apiCatch")
             /\ fetches' = IF threw THEN fetches
                           ELSE Append(Append(fetches, <<CurrentId, apiIndex>>),
                                       <<CurrentId, apiIndex>>)
    /\ UNCHANGED <<nodes, uiVars, queueVars, codeVars, graphVars, mode, response, ri, rqueue,
                   completedNodes, finalOutput, result, dispatches, rres, sres>>

\* lines 379-403: the request is announced and issued
ExecuteNodeRequest ==
    /\ rpc = "request"
    /\ LET apiIndex == ApiIndex(ri)
       IN \E threw \in ThrowChoices :
             /\ AddLog(ExecutionLog(CurrentId, CurrentNode.label, "info",
                          <<"Making ", EndpointMethods[apiIndex + 1], " request">>,
                          JSUndefined),
                       threw, "fetch", "apiCatch")
             /\ fetches' = IF threw THEN fetches
                           ELSE Append(fetches, <<CurrentId, apiIndex>>)
    /\ UNCHANGED <<nodes, uiVars, queueVars, codeVars, graphVars, mode, response, ri, rqueue,
                   completedNodes, finalOutput, result, dispatches, rres, sres>>

\* lines 403-413: the request settles and the body is decoded
FetchSettles ==
    /\ rpc = "fetch"
    /\ \E o \in FetchOutcomes :
          LET c == FetchCompletion(o)
          IN /\ response' = o
             /\ IF c.type = "throw"
                THEN /\ exc' = ErrorMessage(c)
                     /\ rpc' = "apiCatch"
                     /\ result' = result
                ELSE /\ exc' = exc
                     /\ rpc' = "apiSuccess"
                     /\ result' = NodeExecutionResult(TRUE, c.value, FALSE, <<>>, <<>>)
    /\ UNCHANGED <<nodes, uiVars, queueVars, codeVars, graphVars, mode, ri, rqueue,
                   completedNodes, logs, finalOutput, events, dispatches, fetches,
                   throws, rres, sres>>

\* lines 415-421: the call succeeded
ExecuteNodeSuccess ==
    /\ rpc = "apiSuccess"
    /\ \E threw \in ThrowChoices :
          /\ AddLog(ExecutionLog(CurrentId, CurrentNode.label, "success",
                       <<"API call successful">>, result.output),
                    threw, "executed", "apiCatch")
          /\ result' = IF threw THEN result
                       ELSE NodeExecutionResult(TRUE, result.output, FALSE, <<>>,
                               << <<"API call to ", EndpointNames[ApiIndex(ri) + 1],
                                    " successful">> >>)
    /\ UNCHANGED <<nodes, uiVars, queueVars, codeVars, graphVars, mode, response, ri, rqueue,
                   completedNodes, finalOutput, dispatches, fetches, rres, sres>>

\* lines 422-440: the catch of executeNode
ExecuteNodeCatch ==
    /\ rpc = "apiCatch"
    /\ \E threw \in ThrowChoices :
          /\ AddLog(ExecutionLog(CurrentId, CurrentNode.label, "error",
                       <<"API call failed: ">> \o exc, JSUndefined),
                    threw, "executed", CallerCatch)
          /\ result' = IF threw THEN result
                       ELSE NodeExecutionResult(FALSE, JSUndefined, TRUE, exc,
                               << <<"API call to ", EndpointNames[ApiIndex(ri) + 1],
                                    " failed: ">> \o exc >>)
    /\ UNCHANGED <<nodes, uiVars, queueVars, codeVars, graphVars, mode, response, ri, rqueue,
                   completedNodes, finalOutput, dispatches, fetches, rres, sres>>

\* the outcome recorded with the node pushed on completedNodes whatever its result
NodeOutcomeKeepsFailed ==
    /\ mode = "runAll"
    /\ rpc = "executed"
    /\ finalOutput' = result.output
    /\ completedNodes' = Append(completedNodes, CurrentId)
    /\ AddLog(ExecutionLog(CurrentId, CurrentNode.label, "info", <<"Node executed">>,
                           result.output),
              FALSE, "onNodeComplete", "innerCatch")
    /\ UNCHANGED <<nodes, uiVars, queueVars, codeVars, graphVars, mode, response, ri, rqueue, result,
                   dispatches, fetches, rres, sres>>

\* lines 250-267: the outcome of the dispatch is recorded
NodeOutcome ==
    /\ mode = "runAll"
    /\ rpc = "executed"
    /\ \E threw \in ThrowChoices :
          IF result.success
          THEN /\ finalOutput' = result.output
               /\ completedNodes' = Append(completedNodes, CurrentId)
               /\ AddLog(ExecutionLog(CurrentId, CurrentNode.label, "success",
                            <<"Node executed successfully">>, result.output),
                         threw, "onNodeComplete", "innerCatch")
          ELSE /\ AddLog(ExecutionLog(CurrentId, CurrentNode.label, "error",
                            IF result.error = <<>> THEN <<"Execution failed">>
                            ELSE result.error, JSUndefined),
                         threw, "onNodeComplete", "innerCatch")
               /\ UNCHANGED <<finalOutput, completedNodes>>
    /\ UNCHANGED <<nodes, uiVars, queueVars, codeVars, graphVars, mode, response, ri, rqueue, result,
                   dispatches, fetches, rres, sres>>

\* lines 269-274: onNodeComplete is invoked with the result; a delay follows
\* unless the node is the last one
OnNodeComplete ==
    /\ mode = "runAll"
    /\ rpc = "onNodeComplete"
    /\ \E threw \in ThrowChoices :
          /\ events' = Append(events,
                              Event("onNodeComplete", CurrentId, result, NoLog, threw))
          /\ throws' = IF threw THEN throws + 1 ELSE throws
          /\ exc' = IF threw THEN CallbackError ELSE exc
          /\ IF threw
             THEN rpc' = "innerCatch" /\ ri' = ri
             ELSE IF ri < Len(rqueue) - 1
                  THEN rpc' = "delay" /\ ri' = ri
                  ELSE rpc' = "for" /\ ri' = ri + 1
    /\ UNCHANGED <<nodes, uiVars, queueVars, codeVars, graphVars, mode, response, rqueue, completedNodes,
                   logs, finalOutput, result, dispatches, fetches, rres, sres>>

\* line 273: the delay between two nodes elapses
Delay ==
    /\ mode = "runAll"
    /\ rpc = "delay"
    /\ rpc' = "for"
    /\ ri' = ri + 1
    /\ UNCHANGED <<nodes, uiVars, queueVars, codeVars, graphVars, mode, response, rqueue, completedNodes,
                   logs, finalOutput, result, exc, events, dispatches, fetches, throws,
                   rres, sres>>

\* lines 275-283: the catch inside the loop records the error
InnerCatchLog ==
    /\ mode = "runAll"
    /\ rpc = "innerCatch"
    /\ \E threw \in ThrowChoices :
          /\ AddLog(ExecutionLog(CurrentId, CurrentNode.label, "error",
                       <<"Execution error: ">> \o exc, JSUndefined),
                    threw, "innerComplete", "outerCatch")
          /\ result' = IF threw THEN result
                       ELSE NodeExecutionResult(FALSE, JSUndefined, TRUE, exc, <<>>)
    /\ UNCHANGED <<nodes, uiVars, queueVars, codeVars, graphVars, mode, response, ri, rqueue,
                   completedNodes, finalOutput, dispatches, fetches, rres, sres>>

\* lines 285-292: the catch inside the loop reports the node as failed
InnerCatchComplete ==
    /\ mode = "runAll"
    /\ rpc = "innerComplete"
    /\ \E threw \in ThrowChoices :
          /\ events' = Append(events,
                              Event("onNodeComplete", CurrentId, result, NoLog, threw))
          /\ throws' = IF threw THEN throws + 1 ELSE throws
          /\ exc' = IF threw THEN CallbackError ELSE exc
          /\ rpc' = IF threw THEN "outerCatch" ELSE "for"
          /\ ri' = IF threw THEN ri ELSE ri + 1
    /\ UNCHANGED <<nodes, uiVars, queueVars, codeVars, graphVars, mode, response, rqueue, completedNodes,
                   logs, finalOutput, result, dispatches, fetches, rres, sres>>

\* lines 229 and 295-308: the loop test fails; the trailing record is added
\* and the run returns
LogCompleted ==
    /\ mode = "runAll"
    /\ rpc = "for"
    /\ ~(ri < Len(rqueue))
    /\ \E threw \in ThrowChoices :
          /\ AddLog(ExecutionLog(SystemId, <<"System">>, "success",
                       <<"Workflow execution completed successfully">>, JSUndefined),
                    threw, "returned", "outerCatch")
          /\ rres' = IF threw THEN rres
                     ELSE QueueExecutionResult(TRUE, rqueue, completedNodes, finalOutput,
                                               FALSE, <<>>, logs')
    /\ UNCHANGED <<nodes, uiVars, queueVars, codeVars, graphVars, mode, response, ri, rqueue,
                   completedNodes, finalOutput, result, dispatches, fetches, sres>>

\* lines 309-326: the catch around the loop
OuterCatch ==
    /\ mode = "runAll"
    /\ rpc = "outerCatch"
    /\ \E threw \in ThrowChoices :
          /\ AddLog(ExecutionLog(SystemId, <<"System">>, "error",
                       <<"Workflow execution failed: ">> \o exc, JSUndefined),
                    threw, "returned", "rejected")
          /\ rres' = IF threw THEN rres
                     ELSE QueueExecutionResult(FALSE, rqueue, completedNodes, JSUndefined,
                                               TRUE, exc, logs')
    /\ UNCHANGED <<nodes, uiVars, queueVars, codeVars, graphVars, mode, response, ri, rqueue,
                   completedNodes, finalOutput, result, dispatches, fetches, sres>>

\* lines 447-466: the step entry up to its call of executeNode
StepCall ==
    /\ mode = "step"
    /\ rpc = "call"
    /\ response' = NoResponse
    /\ \E q \in CreateExecutionQueue(nodes) :
          /\ rqueue' = q
          /\ IF PastEnd(ri, q)
             THEN /\ sres' = StepResult(NodeExecutionResult(FALSE, JSUndefined, TRUE,
                                            <<"No more nodes to execute">>, <<>>), FALSE)
                  /\ rpc' = "returned"
                  /\ dispatches' = dispatches
             ELSE IF FindNode(nodes, QueueAt(q, ri)) = 0
             THEN /\ sres' = StepResult(NodeExecutionResult(FALSE, JSUndefined, TRUE,
                                            <<"Node not found">>, <<>>), HasNext(ri, q))
                  /\ rpc' = "returned"
                  /\ dispatches' = dispatches
             ELSE /\ sres' = sres
                  /\ rpc' = "executeNode"
                  /\ dispatches' = Append(dispatches, <<QueueAt(q, ri), ri>>)
    /\ UNCHANGED <<nodes, uiVars, queueVars, codeVars, graphVars, mode, ri, completedNodes, logs,
                   finalOutput, result, exc, events, fetches, throws, rres>>

\* lines 466-471: executeNode has returned to the step entry
StepReturn ==
    /\ mode = "step"
    /\ rpc = "executed"
    /\ sres' = StepResult(result, HasNext(ri, rqueue))
    /\ rpc' = "returned"
    /\ UNCHANGED <<nodes, uiVars, queueVars, codeVars, graphVars, mode, response, ri, rqueue,
                   completedNodes, logs, finalOutput, result, exc, events, dispatches,
                   fetches, throws, rres>>

\* QueueFlowExecutor.executeFlow on a list of nodes
RunAllInit ==
    /\ nodes \in RunNodeLists
    /\ mode = "runAll"
    /\ ri = 0
    /\ RunStart

RunAllNext ==
    \/ RunAllCall
    \/ LogExecuting
    \/ OnNodeStart
    \/ ExecuteNodeInput
    \/ ExecuteNodeEndpoint
    \/ ExecuteNodeRequest
    \/ FetchSettles
    \/ ExecuteNodeSuccess
    \/ ExecuteNodeCatch
    \/ NodeOutcome
    \/ OnNodeComplete
    \/ Delay
    \/ InnerCatchLog
    \/ InnerCatchComplete
    \/ LogCompleted
    \/ OuterCatch

SpecRunAll == RunAllInit /\ [][RunAllNext]_vars

StepCursors == (0 - 1) .. MaxCursor

\* QueueFlowExecutor.executeNodeStepByStep on a list of nodes and a cursor
StepInit ==
    /\ nodes \in StepNodeLists
    /\ mode = "step"
    /\ ri \in StepCursors
    /\ RunStart

StepNext ==
    \/ StepCall
    \/ ExecuteNodeInput
    \/ ExecuteNodeEndpoint
    \/ ExecuteNodeRequest
    \/ FetchSettles
    \/ ExecuteNodeSuccess
    \/ ExecuteNodeCatch
    \/ StepReturn

SpecStep == StepInit /\ [][StepNext]_vars

\* The caller steps on: while hasNext it calls executeNodeStepByStep again
\* with the next cursor. What the call before left in its locals is gone.
StepAgain ==
    /\ mode = "step"
    /\ rpc = "returned"
    /\ sres.hasNext
    /\ ri' = ri + 1
    /\ rpc' = "call"
    /\ rqueue' = <<>>
    /\ result' = NoNodeResult
    /\ exc' = <<>>
    /\ sres' = NoStepResult
    /\ response' = NoResponse
    /\ UNCHANGED <<nodes, uiVars, queueVars, codeVars, graphVars, mode, completedNodes, logs,
                   finalOutput, events, dispatches, fetches, throws, rres>>

\* executeNodeStepByStep called with the cursors 0, 1, ... on a list of nodes
SeriesInit ==
    /\ nodes \in StepNodeLists
    /\ mode = "step"
    /\ ri = 0
    /\ RunStart

\* both ways of running the queue: one executeFlow, or a series of steps
ModesInit == RunAllInit \/ SeriesInit

ModesNext ==
    \/ RunAllCall
    \/ LogExecuting
    \/ OnNodeStart
    \/ ExecuteNodeInput
    \/ ExecuteNodeEndpoint
    \/ ExecuteNodeRequest
    \/ FetchSettles
    \/ ExecuteNodeSuccess
    \/ ExecuteNodeCatch
    \/ NodeOutcome
    \/ OnNodeComplete
    \/ Delay
    \/ InnerCatchLog
    \/ InnerCatchComplete
    \/ LogCompleted
    \/ OuterCatch
    \/ StepCall
    \/ StepReturn
    \/ StepAgain

SpecModes == ModesInit /\ [][ModesNext]_vars

\* FlowExecutor.executeFlow on graphs with as many edges as nodes
SmallGraphInit ==
    /\ GraphLiveInit
    /\ Len(edges) <= MaxGraphNodes

\* QueueFlowExecutor.executeFlow on the shorter lists of nodes
SmallRunInit ==
    /\ RunAllInit
    /\ Len(nodes) < MaxRunNodes

\* one executeFlow, or one executeNodeStepByStep with any cursor
QueueRunsInit == SmallRunInit \/ StepInit

QueueRunsNext ==
    \/ RunAllCall
    \/ LogExecuting
    \/ OnNodeStart
    \/ ExecuteNodeInput
    \/ ExecuteNodeEndpoint
    \/ ExecuteNodeRequest
    \/ FetchSettles
    \/ ExecuteNodeSuccess
    \/ ExecuteNodeCatch
    \/ NodeOutcome
    \/ OnNodeComplete
    \/ Delay
    \/ InnerCatchLog
    \/ InnerCatchComplete
    \/ LogCompleted
    \/ OuterCatch
    \/ StepCall
    \/ StepReturn

SpecQueueRuns == QueueRunsInit /\ [][QueueRunsNext]_vars

\* every entry point that is handed the caller's nodes and edges
CallersInit == QueueInit \/ SmallRunInit \/ SeriesInit \/ SmallGraphInit

CallersNext ==
    \/ BuildQueue
    \/ GraphCall
    \/ GraphIterate
    \/ GraphReturn
    \/ RunAllCall
    \/ LogExecuting
    \/ OnNodeStart
    \/ ExecuteNodeInput
    \/ ExecuteNodeEndpoint
    \/ ExecuteNodeRequest
    \/ FetchSettles
    \/ ExecuteNodeSuccess
    \/ ExecuteNodeCatch
    \/ NodeOutcome
    \/ OnNodeComplete
    \/ Delay
    \/ InnerCatchLog
    \/ InnerCatchComplete
    \/ LogCompleted
    \/ OuterCatch
    \/ StepCall
    \/ StepReturn
    \/ StepAgain

SpecCallers == CallersInit /\ [][CallersNext]_vars

--------------------------------------------------------------------------------
(* The store and the commands of ExecutionControls and FlowCanvas *)

\* setNodeExecuting: the first node with the id is marked
SetNodeExecuting(d, id, v) ==
    LET k == FindNode(nodes, id)
    IN IF k = 0 THEN d ELSE [d EXCEPT ![k].isExecuting = v]

\* setNodeOutput
SetNodeOutput(d, id) ==
    LET k == FindNode(nodes, id)
    IN IF k = 0 THEN d ELSE [d EXCEPT ![k].hasOutput = TRUE, ![k].hasError = FALSE]

\* setNodeError
SetNodeError(d, id) ==
    LET k == FindNode(nodes, id)
    IN IF k = 0 THEN d ELSE [d EXCEPT ![k].hasError = TRUE, ![k].hasOutput = FALSE]

\* the reducer setExecutionPath
SetExecutionPath(f, path) == [f EXCEPT !.executionPath = path]

\* clearExecutionState on the nodes
ClearedData == [k \in 1..Len(nodeData) |-> NoNodeData]

\* clearExecutionState on the rest of the store
ClearedFlow ==
    [flow EXCEPT !.isExecuting = FALSE, !.currentNodeId = NullId, !.executionPath = <<>>]

\* handleNodeStart
HandleNodeStart(d, id) == SetNodeExecuting(d, id, TRUE)

\* handleNodeComplete that leaves the node marked as executing
HandleNodeCompleteStillExecuting(d, id, success) ==
    IF success THEN SetNodeOutput(d, id) ELSE SetNodeError(d, id)

\* handleNodeComplete
HandleNodeComplete(d, id, success) ==
    LET stopped == SetNodeExecuting(d, id, FALSE)
    IN IF success THEN SetNodeOutput(stopped, id) ELSE SetNodeError(stopped, id)

\* result.success of the executeNode calls that can come back for a node
NodeResults(id) ==
    IF id = InputNodeId THEN {TRUE}
    ELSE {FetchCompletion(o).type = "normal" : o \in FetchOutcomes}

\* A handler that waits on an await: the queue it built from the nodes it was
\* created with, its position in it, what it waits for, the node ids it has
\* reported through handleNodeComplete, and whether Reset was issued meanwhile.
Task(kind, q, i, at, id, completed, reset, path) ==
    [kind |-> kind, q |-> q, i |-> i, at |-> at, id |-> id,
     completed |-> completed, reset |-> reset, path |-> path]

DoneTask == Task("done", <<>>, 0, "done", NullId, <<>>, FALSE, <<>>)

InFlight(k) == tasks[k].at # "done"

CanClick == clicks < MaxClicks

CanStart == CanClick /\ Len(tasks) < MaxTasks

StoreIds == {nodes[k].id : k \in 1..Len(nodes)}

\* FlowCanvas mounts: the entry node is added once
MountCanvas ==
    /\ ~hasInitialized
    /\ hasInitialized' = TRUE
    /\ nodes' = Append(nodes, Node(InputNodeId, LabelOf(InputNodeId), NoScript))
    /\ nodeData' = Append(nodeData, NoNodeData)
    /\ UNCHANGED <<queueVars, codeVars, graphVars, runVars, flow, currentStep, tasks, now,
                   clicks>>

\* API_ENDPOINTS of the canvas: the names the new nodes are labelled with
CanvasEndpointNames ==
    <<"Health Check", "Basic Function Test", "Library Test", "Stdout Capture Test">>

\* getNextEndpointIndex: 0 for the first API node, then 1, 2, 3 in a cycle
GetNextEndpointIndex(ns) ==
    LET nodeCount == Cardinality({k \in 1..Len(ns) : ns[k].id # InputNodeId})
    IN IF nodeCount = 0 THEN 0 ELSE ((nodeCount - 1) % 3) + 1

\* handleAddNode: Add API Node
AddApiNode ==
    /\ Len(nodes) < MaxStoreNodes
    /\ FindNode(nodes, InputNodeId) # 0
    /\ LET id == NodeId(IntToString(now))
           endpointIndex == GetNextEndpointIndex(nodes)
       IN nodes' = Append(nodes, Node(id, <<CanvasEndpointNames[endpointIndex + 1]>>,
                                      NoScript))
    /\ nodeData' = Append(nodeData, NoNodeData)
    /\ UNCHANGED <<queueVars, codeVars, graphVars, runVars, flow, currentStep, tasks, now,
                   hasInitialized, clicks>>

\* a millisecond passes
Tick ==
    /\ now < MaxClock
    /\ now' = now + 1
    /\ UNCHANGED <<nodes, queueVars, codeVars, graphVars, runVars, flow, nodeData,
                   currentStep, tasks, hasInitialized, clicks>>

\* handleNodeClick and handleCanvasClick: a node is selected, or none
SelectNode ==
    /\ CanClick
    /\ clicks' = clicks + 1
    /\ \E id \in StoreIds \cup {NullId} :
          /\ id # flow.selectedNodeId
          /\ flow' = [flow EXCEPT !.selectedNodeId = id]
    /\ UNCHANGED <<nodes, queueVars, codeVars, graphVars, runVars, nodeData, currentStep,
                   tasks, now, hasInitialized>>

\* handleExecuteFlow up to the first await inside executeFlow
ClickExecuteFlow ==
    /\ CanStart
    /\ ~flow.isExecuting
    /\ Len(nodes) > 0
    /\ clicks' = clicks + 1
    /\ currentStep' = 0
    /\ \E q \in CreateExecutionQueue(nodes) :
          IF Len(q) = 0
          THEN /\ flow' = [ClearedFlow EXCEPT !.isExecuting = TRUE]
               /\ nodeData' = ClearedData
               /\ tasks' = Append(tasks, Task("flow", q, 0, "settled", NullId, <<>>, FALSE,
                                                  flow.executionPath))
          ELSE /\ flow' = [ClearedFlow EXCEPT !.isExecuting = TRUE, !.currentNodeId = q[1]]
               /\ nodeData' = HandleNodeStart(ClearedData, q[1])
               /\ tasks' = Append(tasks, Task("flow", q, 0, "node", NullId, <<>>, FALSE,
                                                  flow.executionPath))
    /\ UNCHANGED <<nodes, queueVars, codeVars, graphVars, runVars, now, hasInitialized>>

\* executeFlow: executeNode has come back, the node is reported, and the
\* loop waits for its delay or has ended
FlowNodeSettles ==
    /\ \E k \in 1..Len(tasks) :
          /\ tasks[k].kind = "flow"
          /\ tasks[k].at = "node"
          /\ LET t  == tasks[k]
                 id == t.q[t.i + 1]
             IN \E success \in NodeResults(id) :
                   /\ nodeData' = HandleNodeComplete(nodeData, id, success)
                   /\ flow' = SetExecutionPath(flow, Append(t.path, id))
                   /\ tasks' = [tasks EXCEPT ![k] =
                                   [t EXCEPT !.completed = Append(t.completed, id),
                                             !.at = IF t.i < Len(t.q) - 1 THEN "delay"
                                                    ELSE "settled"]]
    /\ UNCHANGED <<nodes, queueVars, codeVars, graphVars, runVars, currentStep, now,
                   hasInitialized, clicks>>

\* executeFlow: the delay is over and the next node is started
FlowDelayEnds ==
    /\ \E k \in 1..Len(tasks) :
          /\ tasks[k].kind = "flow"
          /\ tasks[k].at = "delay"
          /\ LET t  == tasks[k]
                 id == t.q[t.i + 2]
             IN /\ flow' = [flow EXCEPT !.currentNodeId = id]
                /\ nodeData' = HandleNodeStart(nodeData, id)
                /\ tasks' = [tasks EXCEPT ![k] = [t EXCEPT !.i = t.i + 1, !.at = "node"]]
    /\ UNCHANGED <<nodes, queueVars, codeVars, graphVars, runVars, currentStep, now,
                   hasInitialized, clicks>>

\* handleExecuteFlow after its await: executeFlow returned success = true
FlowReturns ==
    /\ \E k \in 1..Len(tasks) :
          /\ tasks[k].kind = "flow"
          /\ tasks[k].at = "settled"
          /\ tasks' = [tasks EXCEPT ![k] = DoneTask]
    /\ flow' = [flow EXCEPT !.isExecuting = FALSE, !.currentNodeId = NullId]
    /\ UNCHANGED <<nodes, queueVars, codeVars, graphVars, runVars, nodeData, currentStep,
                   now, hasInitialized, clicks>>

\* handleStepExecution with no node selected, up to its await: the call is
\* made with the currentStep the handler was created with
ClickStep ==
    /\ CanStart
    /\ Len(nodes) > 0
    /\ flow.selectedNodeId = NullId
    /\ clicks' = clicks + 1
    /\ IF ~flow.isExecuting
       THEN /\ flow' = [ClearedFlow EXCEPT !.isExecuting = TRUE]
            /\ nodeData' = ClearedData
            /\ currentStep' = 0
       ELSE UNCHANGED <<flow, nodeData, currentStep>>
    /\ \E q \in CreateExecutionQueue(nodes) :
          tasks' = Append(tasks, Task("step", q, currentStep, "node", NullId, <<>>, FALSE,
                                      flow.executionPath))
    /\ UNCHANGED <<nodes, queueVars, codeVars, graphVars, runVars, now, hasInitialized>>

\* handleStepExecution after its await
StepSettles ==
    /\ \E k \in 1..Len(tasks) :
          /\ tasks[k].kind = "step"
          /\ tasks[k].at = "node"
          /\ LET t  == tasks[k]
                 id == QueueAt(t.q, t.i)
                 reported == IF PastEnd(t.i, t.q) THEN flow
                             ELSE SetExecutionPath(flow, Append(t.path, id))
             IN /\ tasks' = [tasks EXCEPT ![k] =
                                [DoneTask EXCEPT !.kind = "step", !.i = t.i,
                                                 !.completed = IF PastEnd(t.i, t.q) THEN <<>>
                                                               ELSE <<id>>]]
                /\ IF PastEnd(t.i, t.q)
                   THEN nodeData' = nodeData
                   ELSE \E success \in NodeResults(id) :
                           nodeData' = HandleNodeComplete(HandleNodeStart(nodeData, id),
                                                          id, success)
                /\ IF ~PastEnd(t.i, t.q) /\ HasNext(t.i, t.q)
                   THEN /\ currentStep' = currentStep + 1
                        /\ flow' = [reported EXCEPT !.currentNodeId = id]
                   ELSE /\ currentStep' = 0
                        /\ flow' = [reported EXCEPT !.isExecuting = FALSE,
                                                    !.currentNodeId = NullId]
    /\ UNCHANGED <<nodes, queueVars, codeVars, graphVars, runVars, now, hasInitialized,
                   clicks>>

\* handleStepExecution with a node selected, up to the await of
\* executeSelectedNode
ClickExecuteSelected ==
    /\ CanStart
    /\ Len(nodes) > 0
    /\ flow.selectedNodeId # NullId
    /\ FindNode(nodes, flow.selectedNodeId) # 0
    /\ clicks' = clicks + 1
    /\ flow' = [flow EXCEPT !.isExecuting = TRUE, !.currentNodeId = flow.selectedNodeId]
    /\ nodeData' = HandleNodeStart(nodeData, flow.selectedNodeId)
    /\ \E q \in CreateExecutionQueue(nodes) :
          tasks' = Append(tasks, Task("selected", q, IndexOf(q, flow.selectedNodeId), "node",
                                      flow.selectedNodeId, <<>>, FALSE, flow.executionPath))
    /\ UNCHANGED <<nodes, queueVars, codeVars, graphVars, runVars, currentStep, now,
                   hasInitialized>>

\* executeSelectedNode after its await, and the finally of handleStepExecution
SelectedSettles ==
    /\ \E k \in 1..Len(tasks) :
          /\ tasks[k].kind = "selected"
          /\ tasks[k].at = "node"
          /\ LET t == tasks[k]
             IN /\ tasks' = [tasks EXCEPT ![k] = DoneTask]
                /\ \E success \in (IF t.i < 0 THEN {FALSE} ELSE NodeResults(t.id)) :
                      nodeData' = HandleNodeComplete(nodeData, t.id, success)
                /\ flow' = [SetExecutionPath(flow, Append(t.path, t.id))
                               EXCEPT !.isExecuting = FALSE]
    /\ UNCHANGED <<nodes, queueVars, codeVars, graphVars, runVars, currentStep, now,
                   hasInitialized, clicks>>

\* Reset that throws away the handlers that wait
ClickResetCancels ==
    /\ CanClick
    /\ clicks' = clicks + 1
    /\ flow' = ClearedFlow
    /\ nodeData' = ClearedData
    /\ currentStep' = 0
    /\ tasks' = [k \in 1..Len(tasks) |-> DoneTask]
    /\ UNCHANGED <<nodes, queueVars, codeVars, graphVars, runVars, now, hasInitialized>>

\* handleReset: the store and the cursor are cleared; nothing is done about
\* the handlers that wait
ClickReset ==
    /\ CanClick
    /\ clicks' = clicks + 1
    /\ flow' = ClearedFlow
    /\ nodeData' = ClearedData
    /\ currentStep' = 0
    /\ tasks' = [k \in 1..Len(tasks) |->
                    IF InFlight(k) THEN [tasks[k] EXCEPT !.reset = TRUE] ELSE tasks[k]]
    /\ UNCHANGED <<nodes, queueVars, codeVars, graphVars, runVars, now, hasInitialized>>

\* the application is loaded: the store is in its initialState
CanvasInit ==
    /\ nodes = <<>>
    /\ QueueIdle
    /\ CodeIdle
    /\ GraphIdle
    /\ RunIdle
    /\ UiIdle

CanvasNext ==
    \/ MountCanvas
    \/ AddApiNode
    \/ Tick
    \/ SelectNode

SpecCanvas == CanvasInit /\ [][CanvasNext]_vars

\* ExecutionControls over a store that holds nodes and no trace of a run
ControlsInit ==
    /\ nodes \in NodeLists(MaxControlNodes)
    /\ QueueIdle
    /\ CodeIdle
    /\ GraphIdle
    /\ RunIdle
    /\ flow = InitialFlow
    /\ nodeData = [k \in 1..Len(nodes) |-> NoNodeData]
    /\ currentStep = 0
    /\ tasks = <<>>
    /\ now = 1
    /\ hasInitialized = TRUE
    /\ clicks = 0

ControlsNext ==
    \/ SelectNode
    \/ ClickExecuteFlow
    \/ FlowNodeSettles
    \/ FlowDelayEnds
    \/ FlowReturns
    \/ ClickStep
    \/ StepSettles
    \/ ClickExecuteSelected
    \/ SelectedSettles
    \/ ClickReset

SpecControls == ControlsInit /\ [][ControlsNext]_vars

---------------------------------------------------------------------------
(* Properties of createExecutionQueue *)

HasInputNode(ns) == \E i \in 1..Len(ns) : IsInputNode(ns[i])

OtherCount(ns) == Cardinality({i \in 1..Len(ns) : ~IsInputNode(ns[i])})

\* the numeric token of an id (0 for an id with no second segment)
HasToken(id) == ~TimeOf([id |-> id]).nan

TokenOf(id) == TimeOf([id |-> id]).n

\* C1: for a collection holding the entry node and k other nodes the queue has
\* length k+1, starts with the entry node and lists the others in ascending
\* order of the numeric token of their id (ids are compared only where both
\* carry a number).
C1_QueueSortedByToken ==
    (qpc = "returned" /\ HasInputNode(nodes)) =>
        /\ Len(queue) = OtherCount(nodes) + 1
        /\ queue[1] = InputNodeId
        /\ \A i, j \in 2..Len(queue) :
              (i < j /\ HasToken(queue[i]) /\ HasToken(queue[j]))
                  => TokenOf(queue[i]) <= TokenOf(queue[j])

\* C2: with no node carrying the entry-node id the queue is empty, however
\* many other nodes there are.
C2_NoEntryEmptyQueue ==
    (qpc = "returned" /\ ~HasInputNode(nodes)) => queue = <<>>

C2_Witness ==
    qpc = "returned" /\ ~HasInputNode(nodes) /\ Len(nodes) >= 2 /\ queue = <<>>

\* the id has no second '-' separated segment, or one that is not a number
Unparseable(id) ==
    LET parts == Split(id, "-")
    IN Len(parts) < 2 \/ ParseInt(parts[2]).nan

\* C18: in the queue every non-entry id with no parseable numeric token is
\* placed as if its token were 0: before every id with a positive token.
C18_UnparseableSortsAsZero ==
    (qpc = "returned" /\ HasInputNode(nodes)) =>
        \A i, j \in 2..Len(queue) :
            (Unparseable(queue[i]) /\ ~Unparseable(queue[j]) /\ TokenOf(queue[j]) > 0)
                => i < j

---------------------------------------------------------------------------
(* Properties of CodeExecutor *)

\* C5: evaluateCondition returns a boolean unchanged, true for a number iff it
\* is not zero, true for a string iff it is not empty, true for an array iff
\* it is not empty, false for null and undefined, and true for anything else;
\* so 0, "", [], null, undefined give false and {}, "x", 1, true, [0] give true.
C5_ClassifyTruthiness ==
    cpc = "returned" =>
        /\ cval.t = "boolean" => cond = cval.b
        /\ cval.t = "number" => (cond <=> ~(~cval.nan /\ cval.n = 0))
        /\ cval.t = "string" => (cond <=> cval.items # <<>>)
        /\ cval.t = "array" => (cond <=> cval.items # <<>>)
        /\ cval.t \in {"null", "undefined"} => cond = FALSE
        /\ cval.t \in {"object", "function"} => cond = TRUE
        /\ cval \in {JSNum(0), JSStr(<<>>), JSArr(<<>>), JSNull, JSUndefined} => ~cond
        /\ cval \in {JSObj, JSStr(<<"x">>), JSNum(1), JSBool(TRUE), JSArr(<<JSNum(0)>>)}
              => cond

C5_Witness == cpc = "returned" /\ cval = JSArr(<<>>) /\ cond = FALSE

---------------------------------------------------------------------------
(* Properties of FlowExecutor.executeFlow *)

NoRepeat(s) == \A i, j \in 1..Len(s) : i # j => s[i] # s[j]

CalledIds == [i \in 1..Len(execCalls) |-> execCalls[i][1]]

\* s has part as a run of consecutive elements
Contains(s, part) ==
    \E i \in 1..(Len(s) - Len(part) + 1) : SubSeq(s, i, i + Len(part) - 1) = part

\* a script whose text makes the run of the script fail
FailingScript(s) == s.kind \in {"syntax", "throw", "throwv", "reject"}

ScriptOf(id) == nodes[FindNode(nodes, id)].code

\* C3: for every graph, cycles and self-loops included, and every start node
\* the executionPath holds no id twice and no node's script is run twice.
C3_NoRepeatedVisit ==
    /\ NoRepeat(executionPath)
    /\ NoRepeat(CalledIds)
    /\ gpc = "returned" => NoRepeat(gres.executionPath)

\* a run that followed a cycle back to a node it had visited
C3_Witness ==
    /\ gpc = "returned"
    /\ gres.success
    /\ Len(gres.executionPath) = 2
    /\ currentNodeId = gres.executionPath[1]
    /\ Len(execCalls) = 2

\* C4: once a node with exactly two outgoing edges has run, the next node is
\* the target of the first edge if its output classifies as true and the
\* target of the second edge if it classifies as false.
C4_TwoEdgeBranch ==
    (gpc = "loop" /\ executionPath # <<>>) =>
        LET last == executionPath[Len(executionPath)]
            out  == OutgoingEdges(edges, last)
        IN Len(out) = 2 =>
              currentNodeId = IF EvaluateCondition(currentOutput)
                              THEN out[1].target
                              ELSE out[2].target

\* a falsy output routed along the second of two different edges
C4_Witness ==
    /\ gpc = "loop"
    /\ Len(executionPath) = 1
    /\ LET out == OutgoingEdges(edges, executionPath[1])
       IN /\ Len(out) = 2
          /\ out[1].target # out[2].target
          /\ ~EvaluateCondition(currentOutput)
          /\ currentNodeId = out[2].target

\* C6: the first node whose script fails ends the run: the result has
\* success = false, an error that contains the script's message, the path of
\* the nodes visited up to and including that node, and nothing runs after it.
C6_FailureAbortsRun ==
    \A i \in 1..Len(execCalls) :
        FailingScript(ScriptOf(execCalls[i][1])) =>
            /\ i = Len(execCalls)
            /\ gpc = "returned"
            /\ ~gres.success
            /\ gres.hasError
            /\ Contains(gres.error, ScriptOf(execCalls[i][1]).msg)
            /\ gres.executionPath = CalledIds

\* the second node of a run failed
C6_Witness ==
    /\ gpc = "returned"
    /\ Len(execCalls) = 2
    /\ FailingScript(ScriptOf(execCalls[2][1]))
    /\ ~gres.success
    /\ gres.executionPath = CalledIds

\* the node at position i of the collection is the target of no edge
NoIncoming(i) == \A k \in 1..Len(edges) : edges[k].target # nodes[i].id

\* C13: with no start id the run starts at the first node of the collection
\* that is the target of no edge; if there is no such node (every node is a
\* target, or there are no nodes) the run returns success = false with the
\* error 'No start node found' and an empty executionPath, and no script runs.
C13_StartNodeSelection ==
    (~Truthy(startNodeId) /\ gpc # "call") =>
        IF \E i \in 1..Len(nodes) : NoIncoming(i)
        THEN LET first == CHOOSE i \in 1..Len(nodes) :
                             NoIncoming(i) /\ \A j \in 1..(i - 1) : ~NoIncoming(j)
             IN /\ executionPath = <<>> =>
                      (gpc = "loop" /\ currentNodeId = nodes[first].id)
                /\ executionPath # <<>> => executionPath[1] = nodes[first].id
                /\ execCalls # <<>> => execCalls[1][1] = nodes[first].id
        ELSE /\ gpc = "returned"
             /\ ~gres.success
             /\ gres.error = <<"No start node found">>
             /\ gres.executionPath = <<>>
             /\ executionPath = <<>>
             /\ execCalls = <<>>

\* the second node of the collection is the first one no edge points to
C13_Witness ==
    /\ ~Truthy(startNodeId)
    /\ Len(nodes) = 2
    /\ nodes[1].id # nodes[2].id
    /\ ~NoIncoming(1)
    /\ NoIncoming(2)
    /\ execCalls # <<>>
    /\ execCalls[1][1] = nodes[2].id

\* the id is the id of no node of the collection
Dangling(id) == \A i \in 1..Len(nodes) : nodes[i].id # id

\* C14: when the current node id, an explicit start id or an edge target, is
\* the id of no node, the run returns at once with success = false and the
\* error 'Node <id> not found'; no script runs for that id or after it.
C14_DanglingFailsFast ==
    \A k \in 1..Len(executionPath) :
        Dangling(executionPath[k]) =>
            /\ k = Len(executionPath)
            /\ gpc = "returned"
            /\ ~gres.success
            /\ gres.hasError
            /\ gres.error = <<"Node ">> \o executionPath[k] \o <<" not found">>
            /\ Len(execCalls) = k - 1
            /\ \A c \in 1..Len(execCalls) : execCalls[c][1] # executionPath[k]

\* an edge of the first node led to an id that no node carries
C14_Witness ==
    /\ gpc = "returned"
    /\ Len(executionPath) = 2
    /\ Dangling(executionPath[2])
    /\ Len(execCalls) = 1
    /\ ~gres.success

\* the output of the script run last
LastOutput ==
    LET c == execCalls[Len(execCalls)]
    IN ExecuteCode(ScriptOf(c[1]), [input |-> c[2], variables |-> JSObj]).value.output

\* C15: when the traversal has reached an id that was already visited in the
\* run, the run's next step is to return success = true, with no error, the
\* path so far and the output of the last script run as finalOutput; no
\* script runs again.
C15_RevisitEndsRun ==
    [][(gpc = "loop" /\ Truthy(currentNodeId) /\ currentNodeId \in visited) =>
          /\ gpc' = "returned"
          /\ gres'.success
          /\ ~gres'.hasError
          /\ gres'.finalOutput = LastOutput
          /\ gres'.executionPath = executionPath
          /\ execCalls' = execCalls]_vars

\* the second node's edge led back to the second node
C15_Witness ==
    /\ gpc = "returned"
    /\ gres.success
    /\ Len(gres.executionPath) = 2
    /\ gres.executionPath[1] # gres.executionPath[2]
    /\ currentNodeId = gres.executionPath[2]
    /\ gres.finalOutput = LastOutput
    /\ gres.finalOutput # JSUndefined

\* the ids that edges lead to from the ids of S, S included
RECURSIVE ReachableFrom(_)
ReachableFrom(S) ==
    LET more == S \cup {edges[k].target : k \in {j \in 1..Len(edges) : edges[j].source \in S}}
    IN IF more = S THEN S ELSE ReachableFrom(more)

\* the loop has run at most once for each id reachable from the start
IterationBound ==
    executionPath # <<>> =>
        /\ Len(executionPath) <= Cardinality(ReachableFrom({executionPath[1]}))
        /\ \A k \in 1..Len(executionPath) :
              executionPath[k] \in ReachableFrom({executionPath[1]})

\* C16: when every script invocation returns, the run returns for every
\* graph, cyclic ones included, and its loop runs at most once for each
\* distinct id reachable from the start.
C16_Terminates == <>(gpc = "returned") /\ []IterationBound

\* a run over a cycle of two nodes that has returned
C16_Witness ==
    /\ gpc = "returned"
    /\ gres.success
    /\ Len(executionPath) = 2
    /\ Cardinality(ReachableFrom({executionPath[1]})) = 2
    /\ \E k \in 1..Len(edges) :
          edges[k].source = executionPath[2] /\ edges[k].target = executionPath[1]
    /\ OutgoingEdges(edges, executionPath[1]) # <<>>

---------------------------------------------------------------------------
(* Properties of QueueFlowExecutor.executeNodeStepByStep *)

\* the length of the queue createExecutionQueue builds from the nodes
QueueLength(ns) == IF HasInputNode(ns) THEN OtherCount(ns) + 1 ELSE 0

StepReturned == mode = "step" /\ rpc = "returned"

NoMoreNodes ==
    NodeExecutionResult(FALSE, JSUndefined, TRUE, <<"No more nodes to execute">>, <<>>)

\* C10: for a cursor that is a position of the queue the step returns
\* hasNext = (cursor + 1 < queueLength); for a cursor >= queueLength no node
\* is executed and the step returns the failure 'No more nodes to execute'
\* with hasNext = false.
C10_StepHasNext ==
    LET n == QueueLength(nodes)
    IN /\ (mode = "step" /\ ri >= n) => (dispatches = <<>> /\ fetches = <<>>)
       /\ StepReturned =>
             /\ (0 <= ri /\ ri < n) => (sres.hasNext = (ri + 1 < n))
             /\ ri >= n => (sres.result = NoMoreNodes /\ sres.hasNext = FALSE)

C10_Witness ==
    /\ StepReturned
    /\ ri = 1
    /\ QueueLength(nodes) = 3
    /\ dispatches = << <<rqueue[2], 1>> >>
    /\ sres.hasNext
    /\ sres.result.success

---------------------------------------------------------------------------
(* Properties of QueueFlowExecutor.executeFlow *)

RunAllEnded == mode = "runAll" /\ rpc \in {"returned", "rejected"}

RunAllSucceeded == mode = "runAll" /\ rpc = "returned" /\ rres.success

\* the ids onNodeStart was invoked with, in order
StartedIds ==
    LET s == SelectSeq(events, LAMBDA e : e.cb = "onNodeStart")
    IN [k \in 1..Len(s) |-> s[k].nodeId]

\* a node whose handling failed: an error record carries its id, or a
\* callback invoked for it raised
Failed(id) ==
    \/ \E k \in 1..Len(logs) : logs[k].nodeId = id /\ logs[k].type = "error"
    \/ \E k \in 1..Len(events) : events[k].nodeId = id /\ events[k].threw

\* onNodeComplete was invoked for the node with a failed result
ReportedFailed(id) ==
    \E k \in 1..Len(events) :
        /\ events[k].cb = "onNodeComplete"
        /\ events[k].nodeId = id
        /\ ~events[k].result.success

\* the messages of the records added outside the try block of the loop body
OuterMessages ==
    {"Starting workflow execution with ", "Node not found in workflow",
     "Executing node: ", "Execution error: ",
     "Workflow execution completed successfully", "Workflow execution failed: "}

\* A callback raised where the catch inside the loop does not reach: in the
\* start record of a node, in onNodeStart, in the catch itself (its record,
\* or its onNodeComplete, which is handed a result with no logs), or in a
\* system record.
RaisedOutside(e) ==
    /\ e.threw
    /\ \/ e.cb = "onNodeStart"
       \/ e.cb = "onLog" /\ e.log.message[1] \in OuterMessages
       \/ e.cb = "onNodeComplete" /\ e.result.logs = <<>>

Positions(id) == {p \in 1..Len(rqueue) : rqueue[p] = id}

\* the 'Executing node' records of the id
StartRecords(id) ==
    {k \in 1..Len(logs) :
        /\ logs[k].nodeId = id
        /\ logs[k].type = "info"
        /\ logs[k].message[1] = "Executing node: "}

\* the records of the id with severity success or error
TerminalRecords(id) ==
    {k \in 1..Len(logs) : logs[k].nodeId = id /\ logs[k].type \in {"success", "error"}}

SystemRecords == {k \in 1..Len(logs) : logs[k].nodeId = SystemId}

NoCallbackRaised == \A k \in 1..Len(events) : ~events[k].threw

\* one leading and one trailing system record, and no other
SystemRecordsFrame ==
    /\ Len(logs) >= 2
    /\ Cardinality(SystemRecords) = 2
    /\ logs[1].nodeId = SystemId
    /\ logs[1].type = "info"
    /\ logs[Len(logs)].nodeId = SystemId
    /\ logs[Len(logs)].type = "success"

\* C9 as stated, for the runs in which every callback returns: a completed
\* run has one leading and one trailing system record and, for each node of
\* the queue, exactly one start record and exactly one record of severity
\* success or error.
C9_OneStartOneTerminal ==
    (RunAllSucceeded /\ NoCallbackRaised) =>
        /\ SystemRecordsFrame
        /\ \A p \in 1..Len(rqueue) :
              /\ Cardinality(StartRecords(rqueue[p])) = Cardinality(Positions(rqueue[p]))
              /\ Cardinality(TerminalRecords(rqueue[p]))
                    = Cardinality(Positions(rqueue[p]))

\* C9, amended: a completed run has one leading and one trailing system
\* record and, for each node of the queue, exactly one start record and at
\* least one record of severity success or error; when no callback raises
\* the entry node has exactly one such record and every other node exactly
\* two, the record of its dispatch ('API call successful' or 'API call
\* failed') and the record of the loop, whether the dispatch succeeds or
\* fails.
C9_RecordsPerNode ==
    RunAllSucceeded =>
        /\ SystemRecordsFrame
        /\ \A p \in 1..Len(rqueue) :
              LET id == rqueue[p]
                  n  == Cardinality(Positions(id))
              IN /\ Cardinality(StartRecords(id)) = n
                 /\ Cardinality(TerminalRecords(id)) >= n
                 /\ NoCallbackRaised =>
                       Cardinality(TerminalRecords(id))
                          = IF id = InputNodeId THEN n ELSE 2 * n

C9_Witness ==
    /\ RunAllSucceeded
    /\ NoCallbackRaised
    /\ Len(rqueue) = 3
    /\ rqueue[2] # rqueue[3]
    /\ ReportedFailed(rqueue[2])
    /\ ~ReportedFailed(rqueue[3])
    /\ Cardinality(TerminalRecords(rqueue[2])) = 2
    /\ Cardinality(TerminalRecords(rqueue[3])) = 2

\* positions in events of the onNodeStart and the onNodeComplete invocations
Starts == {k \in 1..Len(events) : events[k].cb = "onNodeStart"}

Completes == {k \in 1..Len(events) : events[k].cb = "onNodeComplete"}

\* executeNode has been called and has neither returned nor raised
DispatchOutstanding ==
    rpc \in {"executeNode", "request", "fetch", "apiSuccess", "apiCatch"}

\* the onNodeStart invocations whose node has no onNodeComplete yet
OpenStarts == {s \in Starts : ~\E c \in Completes : c > s}

\* C12: within one runAll the nodes are strictly serialized. onNodeStart of a
\* node precedes its dispatch, the dispatch precedes its onNodeComplete,
\* onNodeStart of the next queue position never occurs before onNodeComplete
\* of the position before, and two dispatches are never outstanding together.
C12_NodesSerialized ==
    mode = "runAll" =>
        \* nodes are started in queue order, each dispatch after its onNodeStart
        /\ Len(StartedIds) <= Len(rqueue)
        /\ \A k \in 1..Len(StartedIds) : StartedIds[k] = rqueue[k]
        /\ Len(dispatches) <= Len(StartedIds)
        /\ \A k \in 1..Len(dispatches) : dispatches[k] = <<StartedIds[k], k - 1>>
        \* while the dispatch is outstanding its onNodeComplete has not occurred
        /\ DispatchOutstanding =>
              /\ Len(dispatches) = Len(StartedIds)
              /\ \A c \in Completes : \E s \in Starts : s > c
        \* every onNodeComplete follows the onNodeStart and the dispatch of its node
        /\ \A c \in Completes :
              \E s \in Starts :
                 /\ s < c
                 /\ ~events[s].threw
                 /\ events[s].nodeId = events[c].nodeId
                 /\ ~\E s2 \in Starts : s < s2 /\ s2 < c
                 /\ Cardinality({s1 \in Starts : s1 <= s}) <= Len(dispatches)
        \* between two onNodeStart there is an onNodeComplete
        /\ \A s1, s2 \in Starts :
              s1 < s2 => \E c \in Completes : s1 < c /\ c < s2
        \* at most one node is open, so at most one dispatch is outstanding
        /\ Cardinality(OpenStarts) <= 1

C12_Witness ==
    /\ RunAllSucceeded
    /\ Len(rqueue) = 3
    /\ Len(dispatches) = 3
    /\ Cardinality(Starts) = 3
    /\ Cardinality(Completes) = 3
    /\ OpenStarts = {}

--------------------------------------------------------------------------------
(* Properties of executeNode under both ways of running *)

\* the executeNode call made last
LastDispatch == dispatches[Len(dispatches)]

TemplateIndexes == 0..(NumEndpoints - 1)

\* C20: a non-entry node dispatched at queue position p (p >= 1) uses the
\* call template number (p - 1) mod T, where T = 4 is the number of
\* registered templates, and the computed index is a valid index of the
\* template table in every dispatch.
C20_TemplateByPosition ==
    /\ NumEndpoints = 4
    /\ Len(EndpointNames) = NumEndpoints
    /\ Len(EndpointMethods) = NumEndpoints
    \* a dispatched non-entry node is at a position p >= 1
    /\ \A k \in 1..Len(dispatches) :
          dispatches[k][1] # InputNodeId => dispatches[k][2] >= 1
    \* the template of the outstanding dispatch
    /\ (DispatchOutstanding /\ CurrentId # InputNodeId) =>
          /\ LastDispatch = <<CurrentId, ri>>
          /\ ApiIndex(ri) = (ri - 1) % NumEndpoints
          /\ ApiIndex(ri) \in TemplateIndexes
    /\ rpc = "fetch" =>
          fetches[Len(fetches)] = <<CurrentId, (ri - 1) % NumEndpoints>>
    \* every request made was built from a template of the table
    /\ \A k \in 1..Len(fetches) : fetches[k][2] \in TemplateIndexes

\* the sixth node of a queue is called with the first template again
C20_Witness ==
    /\ mode = "step"
    /\ rpc = "fetch"
    /\ ri = 5
    /\ CurrentId # InputNodeId
    /\ fetches[Len(fetches)] = <<CurrentId, 0>>
    /\ \E k \in 1..Len(fetches) : fetches[k][2] = 3

--------------------------------------------------------------------------------
(* Stepping through the queue against one executeFlow *)

\* the queue both entry points build from the nodes
QueueOf(ns) == CHOOSE q \in CreateExecutionQueue(ns) : TRUE

\* the executeNode calls of a pass over the whole queue, in order
ExpectedDispatches ==
    LET q == QueueOf(nodes) IN [p \in 1..Len(q) |-> <<q[p], p - 1>>]

\* the requests of a pass over the whole queue in which every request is made
ExpectedFetches ==
    LET q == QueueOf(nodes)
    IN [k \in 1..(IF Len(q) = 0 THEN 0 ELSE Len(q) - 1) |->
           <<q[k + 1], (k - 1) % NumEndpoints>>]

\* a series of steps has returned hasNext = false
SeriesEnded == StepReturned /\ ~sres.hasNext

\* what C11 says of the steps: cursors 0, 1, ... execute the whole queue in
\* order with the strategy of each position, and hasNext first becomes false
\* at cursor n - 1
StepsCoverQueue ==
    /\ (StepReturned /\ sres.hasNext) => ri < Len(QueueOf(nodes)) - 1
    /\ SeriesEnded =>
          /\ dispatches = ExpectedDispatches
          /\ fetches = ExpectedFetches
          /\ Len(QueueOf(nodes)) > 0 => ri = Len(QueueOf(nodes)) - 1

--------------------------------------------------------------------------------
(* The entry node and the requests *)

NonEntryDispatches ==
    Cardinality({k \in 1..Len(dispatches) : dispatches[k][1] # InputNodeId})

\* executeNode has been called and has not yet come to its fetch
DispatchPending == rpc \in {"executeNode", "request"}

\* executeNode has returned from the entry node
EntryReturned == rpc = "executed" /\ CurrentId = InputNodeId

EntryResult ==
    NodeExecutionResult(TRUE, InitializedPayload, FALSE, <<>>,
                        << <<"Input node initialized">> >>)

\* the onLog invocations that raised on a record starting with head
RaisedOn(head) ==
    {k \in 1..Len(events) :
        /\ events[k].cb = "onLog"
        /\ events[k].threw
        /\ events[k].log.message[1] = head}

\* the records executeNode writes before its fetch
RaisedBeforeRequest == RaisedOn("Using API endpoint: ") \cup RaisedOn("Making ")

EntryNeverRequests == \A k \in 1..Len(fetches) : fetches[k][1] # InputNodeId

\* C19 as stated: executing the entry node, in runAll or runOneStep, never
\* issues a network call and always returns success = true with the payload
\* {status: 'initialized', timestamp}; every non-entry node issues exactly one
\* network request per execution.
C19_EntryNoCallOthersOne ==
    /\ EntryNeverRequests
    /\ EntryReturned => result = EntryResult
    /\ RaisedOn("Input node initialized") = {}
    /\ ~DispatchPending => Len(fetches) = NonEntryDispatches

\* C19 amended: executing the entry node never issues a network call, and
\* whenever it returns it returns success = true with the payload; in
\* runOneStep it always returns, in runAll it returns unless onLog raises on
\* its record. A non-entry node issues exactly one network request per
\* execution, or none when onLog raises on a record written before the request.
C19_EntryNoCallOthersAtMostOne ==
    /\ EntryNeverRequests
    /\ EntryReturned => result = EntryResult
    /\ mode = "step" =>
          /\ rpc # "rejected"
          /\ (StepReturned /\ ri = 0 /\ Len(rqueue) > 0) => sres.result = EntryResult
    /\ \A c \in Completes :
          (events[c].nodeId = InputNodeId /\ ~events[c].result.success)
              => \E k \in 1..(c - 1) : events[k].threw
    /\ ~DispatchPending =>
          Len(fetches) + Cardinality(RaisedBeforeRequest) = NonEntryDispatches

C19_Witness ==
    /\ RunAllSucceeded
    /\ NoCallbackRaised
    /\ Len(rqueue) = 3
    /\ NonEntryDispatches = 2
    /\ Len(fetches) = 2
    /\ \E c \in Completes :
          events[c].nodeId = InputNodeId /\ events[c].result = EntryResult

--------------------------------------------------------------------------------
(* The records of executeFlow *)

\* the records onLog was invoked with, in order
DeliveredLogs ==
    LET s == SelectSeq(events, LAMBDA e : e.cb = "onLog")
    IN [k \in 1..Len(s) |-> s[k].log]

\* C21: in runAll the sequence of records delivered through onLog is the logs
\* array of the final result, record for record and in the same order, and
\* every record is delivered at the moment it is appended.
C21_LogsStreamed ==
    mode = "runAll" =>
        /\ DeliveredLogs = logs
        /\ rpc = "returned" => rres.logs = DeliveredLogs

C21_Witness ==
    /\ RunAllEnded
    /\ rpc = "returned"
    /\ Len(rqueue) = 3
    /\ Len(dispatches) = 3
    /\ Len(rres.logs) >= 12
    /\ rres.logs = DeliveredLogs
    /\ \E k \in 1..Len(rres.logs) : rres.logs[k].type = "error"

\* a record of the given severities for the node was delivered to the caller
\* among the first n callback invocations
RecordDelivered(id, types, n) ==
    \E k \in 1..n :
        /\ events[k].cb = "onLog"
        /\ events[k].log.nodeId = id
        /\ events[k].log.type \in types

\* in executeFlow every onNodeStart and every onNodeComplete comes after a
\* record of the node
RunAllTransitionsLogged ==
    mode = "runAll" =>
        /\ \A s \in Starts : RecordDelivered(events[s].nodeId, {"info"}, s - 1)
        /\ \A c \in Completes :
              RecordDelivered(events[c].nodeId, {"success", "error"}, c - 1)

\* a step that executed a node has delivered a record of its start and one of
\* its success or failure
StepTransitionsLogged ==
    (StepReturned /\ Len(dispatches) > 0) =>
        \A k \in 1..Len(dispatches) :
            /\ RecordDelivered(dispatches[k][1], {"info"}, Len(events))
            /\ RecordDelivered(dispatches[k][1], {"success", "error"}, Len(events))

\* C22: in both modes, the continuous pass and the execution one step at a
\* time, each node start and each node success or failure yields a log
\* record observable by the caller.
C22_TransitionsLogged ==
    /\ RunAllTransitionsLogged
    /\ StepTransitionsLogged

--------------------------------------------------------------------------------
(* The responses of the network call *)

\* executeNode has returned from a non-entry node whose fetch gave a response
ResponseHandled ==
    /\ rpc = "executed"
    /\ CurrentId # InputNodeId
    /\ response # NoResponse
    /\ ~response.rejected

FailedWithStatus ==
    /\ ~result.success
    /\ Contains(result.error, IntToString(response.status))

FailedWithDecodeError ==
    /\ ~result.success
    /\ result.error = <<"Unexpected token in JSON">>

\* a response that is not 2xx and whose body is JSON fails with its status
StatusReportedForJsonBody ==
    (ResponseHandled /\ ~ResponseOk(response) /\ response.jsonOk) => FailedWithStatus

\* a 2xx response whose body is not JSON fails with the decode error
DecodeErrorReported ==
    (ResponseHandled /\ ResponseOk(response) /\ ~response.jsonOk) => FailedWithDecodeError

\* C23: for a dispatched non-entry node every non-2xx response yields a
\* failed result whose error message embeds the response status code,
\* regardless of the body the response carries; a 2xx response with a
\* malformed or absent JSON body yields a failed result carrying the decode
\* error.
C23_StatusBeforeBody ==
    /\ (ResponseHandled /\ ~ResponseOk(response)) => FailedWithStatus
    /\ DecodeErrorReported

--------------------------------------------------------------------------------
(* The caller's collections *)

\* C24: createExecutionQueue, executeFlow and executeNodeStepByStep of
\* QueueFlowExecutor and executeFlow of FlowExecutor leave the caller's node
\* and edge collections unchanged: same elements, same order, same field
\* values before and after the call.
C24_InputsUnchanged == [][nodes' = nodes /\ edges' = edges]_vars

\* createExecutionQueue has returned an order that is not the order of nodes
C24_Witness ==
    /\ qpc = "returned"
    /\ Len(queue) = 3
    /\ Len(nodes) = 3
    /\ \E i \in 1..3 : queue[i] # nodes[i].id

--------------------------------------------------------------------------------
(* What the scripts of FlowExecutor.executeFlow are given *)

\* the context of the k-th executeCode call of the run
ContextOf(k) == [input |-> execCalls[k][2], variables |-> JSObj]

\* the output of the k-th script run
OutputOf(k) == ExecuteCode(ScriptOf(execCalls[k][1]), ContextOf(k)).value.output

\* context.input is the output of the script run before, null for the first
ContextChained ==
    \A k \in 1..Len(execCalls) :
        execCalls[k][2] = (IF k = 1 THEN JSNull ELSE OutputOf(k - 1))

\* on success finalOutput is the output of the last script run
FinalOutputIsLast ==
    (gpc = "returned" /\ gres.success /\ Len(execCalls) > 0) =>
        gres.finalOutput = OutputOf(Len(execCalls))

\* the values the identifiers input and variables have in the script body
ScriptSeesContext ==
    \A k \in 1..Len(execCalls) :
        /\ Lookup("input", ContextOf(k)).value = ContextOf(k).input
        /\ Lookup("variables", ContextOf(k)).value = ContextOf(k).variables

\* C28: in FlowExecutor.executeFlow each node's script receives as input
\* exactly the output of the node executed immediately before it on the path
\* (null for the first node) and an empty variables map, and on success
\* finalOutput equals the output of the last node on the path.
C28_ScriptReceivesPrevious ==
    /\ ContextChained
    /\ ScriptSeesContext
    /\ FinalOutputIsLast

--------------------------------------------------------------------------------
(* What a script can reach *)

\* the name is one of the parameters of the compiled function: input,
\* variables and the allowlist
Allowed(name) == \E i \in 1..Len(ParamNames) : ParamNames[i] = name

\* the script reads or calls through a name that is not allowed
ReachesOutside(script) == script.kind \in {"ref", "call"} /\ ~Allowed(script.name)

\* a name that is declared nowhere is not reachable
UndeclaredFails ==
    (xpc = "returned" /\ ReachesOutside(code) /\ code.name \notin GlobalNames)
        => ~xres.success

\* C30: a script run by executeCode can reach only its two parameters and the
\* allowlist of ambient bindings; any other host binding, for example the
\* network function fetch, is not reachable from the script body.
C30_OnlyAllowlistReachable ==
    (xpc = "returned" /\ ReachesOutside(code)) =>
        /\ ~xres.success
        /\ xres.error = <<code.name, " is not defined">>

--------------------------------------------------------------------------------
(* Runs without the entry node *)

\* C29: when the entry node is absent from the nodes, executeFlow executes no
\* node and invokes neither onNodeStart nor onNodeComplete, and
\* executeNodeStepByStep at every cursor >= 0 executes no node and returns
\* hasNext = false.
C29_NoEntryNothingRuns ==
    ~HasInputNode(nodes) =>
        /\ dispatches = <<>>
        /\ fetches = <<>>
        /\ Starts = {}
        /\ Completes = {}
        /\ rpc \notin {"onNodeStart", "executeNode", "request", "fetch"}
        /\ (StepReturned /\ ri >= 0) =>
              /\ ~sres.hasNext
              /\ sres.result = NoMoreNodes

C29_Witness ==
    /\ RunAllSucceeded
    /\ ~HasInputNode(nodes)
    /\ Len(nodes) = 2
    /\ rres.executionQueue = <<>>
    /\ rres.completedNodes = <<>>
    /\ Len(rres.logs) = 2

--------------------------------------------------------------------------------
(* Properties of the store under the commands *)

\* no handler waits on an await
NothingInFlight == \A k \in 1..Len(tasks) : ~InFlight(k)

\* C25: after any sequence of Execute Flow, Step Execute, Execute Selected
\* and Reset commands, once no node invocation is in flight, no node of the
\* store has both isExecuting = true and hasError = true, and a node whose
\* invocation has completed has isExecuting = false.
C25_ExecutingOrErrorNotBoth ==
    NothingInFlight =>
        \A k \in 1..Len(nodeData) :
            /\ ~(nodeData[k].isExecuting /\ nodeData[k].hasError)
            /\ ~nodeData[k].isExecuting

\* two handlers have run to their end, and a node that failed is marked
C25_Witness ==
    /\ Len(tasks) = 2
    /\ NothingInFlight
    /\ clicks = 3
    /\ \E k \in 1..Len(nodeData) : nodeData[k].hasError /\ ~nodeData[k].isExecuting
    /\ \E k \in 1..Len(nodeData) : nodeData[k].hasOutput

\* an executeFlow of handleExecuteFlow that waits for a node or for its delay
FlowRunning(k) == tasks[k].kind = "flow" /\ tasks[k].at \in {"node", "delay"}

\* what an executeFlow has reported is the part of its queue it has been through
ReportedSoFar(t) ==
    t.completed = SubSeq(t.q, 1, IF t.at = "node" THEN t.i
                                 ELSE IF t.at = "delay" THEN t.i + 1
                                 ELSE Len(t.q))

\* a step of an executeFlow that was running: it is the same run, and it has not
\* gone back
FlowGoesOn(k) ==
    /\ Len(tasks') >= k
    /\ tasks'[k].kind = "flow"
    /\ tasks'[k].q = tasks[k].q
    /\ tasks'[k].i >= tasks[k].i
    /\ tasks'[k].reset => (tasks[k].reset \/ tasks'[k].at = tasks[k].at)

\* the node invocation that was in flight is reported, and its report is in the store
NodeReported(k) ==
    (tasks[k].at = "node" /\ tasks'[k].at # "node") =>
        LET id == tasks[k].q[tasks[k].i + 1]
            n  == FindNode(nodes, id)
        IN /\ tasks'[k].completed = Append(tasks[k].completed, id)
           /\ ~nodeData'[n].isExecuting
           /\ nodeData'[n].hasOutput \/ nodeData'[n].hasError

\* C26: a Reset issued while an executeFlow is in progress does not interrupt
\* it: the node invocation in flight completes, all remaining nodes of the
\* queue are still executed and reported through the callbacks, and the later
\* callbacks of the run overwrite the state that Reset cleared.
C26_ResetDoesNotInterrupt ==
    /\ [](\A k \in 1..Len(tasks) : tasks[k].kind = "flow" => ReportedSoFar(tasks[k]))
    /\ [][\A k \in 1..Len(tasks) : FlowRunning(k) => (FlowGoesOn(k) /\ NodeReported(k))]_vars

\* an executeFlow over two nodes has come to its end after a Reset, and its
\* last node carries its outcome
C26_Witness ==
    \E k \in 1..Len(tasks) :
        /\ tasks[k].kind = "flow"
        /\ tasks[k].at = "settled"
        /\ tasks[k].reset
        /\ Len(tasks[k].q) = 2
        /\ tasks[k].completed = tasks[k].q
        /\ LET n == FindNode(nodes, tasks[k].q[2])
           IN nodeData[n].hasOutput \/ nodeData[n].hasError

\* C27: node ids are unique: after any sequence of node creations (the
\* creation of the entry node and any number of Add API Node commands, two
\* within the same millisecond included) no two nodes of the store share an id.
C27_UniqueIds ==
    \A i, j \in 1..Len(nodes) : i # j => nodes[i].id # nodes[j].id

\* the entry node is in the store at most once
OneEntryNode ==
    Cardinality({k \in 1..Len(nodes) : nodes[k].id = InputNodeId}) <= 1

--------------------------------------------------------------------------------
(* executeNodeStepByStep with a cursor outside the queue *)

\* executeNodeStepByStep has returned for a cursor that is no index of its queue
OutsideReturned ==
    /\ mode = "step"
    /\ rpc = "returned"
    /\ (ri < 0 \/ ri >= Len(rqueue))

\* for such a cursor no node is executed and the result is a failure
OutsideExecutesNothing ==
    OutsideReturned =>
        /\ dispatches = <<>>
        /\ fetches = <<>>
        /\ ~sres.result.success
        /\ sres.result.hasError

\* a cursor at or past the end of the queue gives hasNext = false
PastEndHasNoNext ==
    (OutsideReturned /\ ri >= Len(rqueue)) => ~sres.hasNext

\* C38: for every integer cursor outside the range [0, queueLength),
\* negative cursors included, executeNodeStepByStep executes no node and
\* returns a failed result with hasNext = false.
C38_OutsideRangeNoNext ==
    OutsideReturned =>
        /\ dispatches = <<>>
        /\ ~sres.result.success
        /\ ~sres.hasNext

--------------------------------------------------------------------------------
(* The executionPath that FlowExecutor.executeFlow returns *)

\* the ids of the node collection handed to the run
GivenIds == {nodes[k].id : k \in 1..Len(nodes)}

\* the ids in the executionPath of the result returned
ReturnedPathIds == {gres.executionPath[k] : k \in 1..Len(gres.executionPath)}

\* the path of a successful run holds ids of given nodes only
SuccessfulPathIdsAreNodes ==
    (gpc = "returned" /\ gres.success) => ReturnedPathIds \subseteq GivenIds

\* C37: every id in the executionPath returned by FlowExecutor.executeFlow,
\* for successful and failed runs alike, is the id of a node present in the
\* node collection passed to the run.
C37_PathIdsAreNodes ==
    gpc = "returned" => ReturnedPathIds \subseteq GivenIds

--------------------------------------------------------------------------------
(* completedNodes and finalOutput of executeFlow *)

RECURSIVE IsSubsequence(_, _)
\* s is t with some of its elements left out
IsSubsequence(s, t) ==
    IF s = <<>> THEN TRUE
    ELSE IF t = <<>> THEN FALSE
    ELSE IF Head(s) = Head(t) THEN IsSubsequence(Tail(s), Tail(t))
    ELSE IsSubsequence(s, Tail(t))

\* executeNode has just returned a result with success = true to executeFlow
NodeSucceeded == mode = "runAll" /\ rpc = "executed" /\ result.success

\* a step of executeFlow pushes the node on completedNodes and takes its output
\* as finalOutput exactly when the result of the node has success = true
CompletedFollowsSuccess ==
    IF NodeSucceeded
    THEN /\ completedNodes' = Append(completedNodes, CurrentId)
         /\ finalOutput' = result.output
    ELSE /\ completedNodes' = completedNodes
         /\ finalOutput' = finalOutput

\* the nodes completed so far are taken from the part of the queue gone through,
\* and finalOutput is null while there is none
CompletedSoFar ==
    mode = "runAll" =>
        /\ IsSubsequence(completedNodes,
                         SubSeq(rqueue, 1, IF ri < Len(rqueue) THEN ri + 1 ELSE Len(rqueue)))
        /\ completedNodes = <<>> => finalOutput = JSNull

\* executeFlow has returned a result
RunAllReturned == mode = "runAll" /\ rpc = "returned"

\* the result carries the completedNodes and the finalOutput of the run
ResultCarriesLocals ==
    /\ rres.executionQueue = rqueue
    /\ rres.completedNodes = completedNodes
    /\ rres.finalOutput = finalOutput

\* C36 as stated: in the result of executeFlow, completedNodes is exactly the
\* subsequence of the execution queue made of the nodes whose result had
\* success = true, and finalOutput is the output of the last node of
\* completedNodes (null if none succeeded).
C36_CompletedAndFinalOutput ==
    /\ [](CompletedSoFar /\ (RunAllReturned => ResultCarriesLocals))
    /\ [][CompletedFollowsSuccess]_vars

\* C36 amended: the same for a result with success = true; a result with
\* success = false carries completedNodes as said and no finalOutput.
C36_CompletedAndFinalOutputOnSuccess ==
    /\ [](CompletedSoFar)
    /\ [](RunAllReturned =>
            /\ rres.executionQueue = rqueue
            /\ rres.completedNodes = completedNodes
            /\ rres.finalOutput = (IF rres.success THEN finalOutput ELSE JSUndefined))
    /\ [][CompletedFollowsSuccess]_vars

\* a run of three nodes has returned success = true: its last node failed and
\* finalOutput is the output of the node before it
C36_Witness ==
    /\ RunAllReturned
    /\ rres.success
    /\ Len(rres.executionQueue) = 3
    /\ Len(rres.completedNodes) = 2
    /\ ~result.success
    /\ rres.finalOutput = ResponseData

--------------------------------------------------------------------------------
(* onNodeComplete against onNodeStart in executeFlow *)

\* the onNodeComplete invocations made for the node started at position s of
\* events: those before the next onNodeStart
CompletesOf(s) ==
    {c \in Completes : c > s /\ ~\E s2 \in Starts : s < s2 /\ s2 < c}

\* when no callback raises, every started node is completed exactly once
CompleteOncePerStartQuiet ==
    (RunAllEnded /\ throws = 0) =>
        \A s \in Starts : Cardinality(CompletesOf(s)) = 1

\* C35: in executeFlow, onNodeComplete is invoked exactly once for every node
\* for which onNodeStart was invoked, even when a callback (onNodeComplete or
\* onLog) itself raises for that node; it is never invoked twice for the same
\* queue position and never skipped.
C35_CompleteExactlyOnce ==
    RunAllEnded => \A s \in Starts : Cardinality(CompletesOf(s)) = 1

\* onNodeComplete is never invoked twice for one queue position
CompleteNeverTwice ==
    mode = "runAll" => \A s \in Starts : Cardinality(CompletesOf(s)) <= 1

\* onNodeComplete is never skipped for a started node
CompleteNeverSkipped ==
    RunAllEnded => \A s \in Starts : Cardinality(CompletesOf(s)) >= 1

--------------------------------------------------------------------------------
(* The executionPath of the store *)

\* the executeFlow of task k has gone through its queue; no Reset was issued
\* so far and no command after its Execute Flow, so that no other handler has
\* waited during the run
FlowFinishedAlone(k) ==
    /\ tasks[k].kind = "flow"
    /\ tasks[k].at = "settled"
    /\ k = Len(tasks)
    /\ clicks = Len(tasks)

\* after an Execute Flow run the store's path is what the run reported
FlowPathIsReported ==
    \A k \in 1..Len(tasks) :
        FlowFinishedAlone(k) => flow.executionPath = tasks[k].completed

\* only Step Execute was issued, over a queue of one node, and every step has
\* come back: each step was a full pass
SingleNodePasses ==
    /\ Len(nodes) = 1
    /\ tasks # <<>>
    /\ clicks = Len(tasks)
    /\ \A k \in 1..Len(tasks) : ~InFlight(k) /\ Len(tasks[k].completed) = 1

\* after a full pass of Step Execute the store's path is what the pass reported
StepPathIsReported ==
    SingleNodePasses => flow.executionPath = tasks[Len(tasks)].completed

\* C31: after an Execute Flow run (or a full pass of Step Execute) finishes,
\* the store's executionPath equals the sequence of node ids reported through
\* onNodeComplete during that run, in order and without repeats, regardless of
\* what executionPath held before the run started.
C31_PathIsWhatWasReported == FlowPathIsReported /\ StepPathIsReported

\* what the store's path does hold after a run: the path the handler was
\* created with, followed by the node reported last
FlowPathIsStaleAndLast ==
    \A k \in 1..Len(tasks) :
        (FlowFinishedAlone(k) /\ tasks[k].q # <<>>) =>
            flow.executionPath = Append(tasks[k].path, tasks[k].q[Len(tasks[k].q)])

\* an Execute Flow run over two nodes has finished with a path left by the
\* run before it
FlowFinishedOverOldPath ==
    \E k \in 1..Len(tasks) :
        /\ FlowFinishedAlone(k)
        /\ Len(tasks[k].q) = 2
        /\ tasks[k].path # <<>>

--------------------------------------------------------------------------------
(* The cursor of Step Execute *)

\* only Step Execute was issued so far, with no node selected
OnlySteps ==
    /\ clicks = Len(tasks)
    /\ \A k \in 1..Len(tasks) : tasks[k].kind = "step"

\* the position the k-th step of a series of passes over a queue of n nodes
\* is to execute
PositionDue(k, n) == IF n = 0 THEN 0 ELSE (k - 1) % n

\* C32: in step mode with no node selected, for every interleaving of Step
\* Execute clicks (a second click while the call of the step before is still
\* in flight included), one pass over a queue of length n executes each queue
\* position 0..n-1 exactly once and in order: no position is executed twice
\* and none is skipped.
C32_EachPositionOnceInOrder ==
    OnlySteps =>
        \A q \in CreateExecutionQueue(nodes) :
            \A k \in 1..Len(tasks) : tasks[k].i = PositionDue(k, Len(q))

\* a step issued while the step before it is in flight is called with the
\* cursor of that step
StepsInFlightShareCursor ==
    OnlySteps =>
        \A j, k \in 1..Len(tasks) :
            (InFlight(j) /\ InFlight(k)) => tasks[j].i = tasks[k].i

\* two steps were issued one after the other over two nodes, and both have
\* come back
TwoStepsInTurn ==
    /\ OnlySteps
    /\ Len(tasks) = 2
    /\ \A k \in 1..2 : ~InFlight(k)
    /\ tasks[1].i = 0
    /\ tasks[2].i = 1
    /\ flow.executionPath = <<tasks[1].completed[1], tasks[2].completed[1]>>

--------------------------------------------------------------------------------
(* Execute Flow while a run is in progress *)

\* the executeFlow calls whose nodes are still being executed
RunsInFlight == {k \in 1..Len(tasks) : FlowRunning(k)}

\* C33: at most one executeFlow is in flight at any time: for every sequence
\* of Execute Flow, Step Execute and Reset commands, Execute Flow cannot start
\* a second run while the nodes of an earlier run are still being executed.
C33_AtMostOneRunAll == Cardinality(RunsInFlight) <= 1

\* Execute Flow starts a run only when the store's isExecuting flag is false
ExecuteFlowNeedsFlagDown ==
    [][(Len(tasks') > Len(tasks) /\ tasks'[Len(tasks')].kind = "flow")
          => ~flow.isExecuting]_vars

\* the flag is false while a run is in flight
FlagDownDuringRun == RunsInFlight # {} /\ ~flow.isExecuting

--------------------------------------------------------------------------------
(* The label of a node against the call template of its queue position *)

\* the nodes of the store were created at different milliseconds
CreatedOneAfterAnother ==
    \A i, j \in 1..Len(nodes) : i # j => nodes[i].id # nodes[j].id

\* the API nodes of the store
ApiNodes == {k \in 1..Len(nodes) : nodes[k].id # InputNodeId}

\* the template executeNode takes for position p (from 1) of queue q is the
\* one the node at that position is labelled with
TemplateIsLabel(q, p) ==
    q[p] # InputNodeId =>
        nodes[FindNode(nodes, q[p])].label = <<EndpointNames[ApiIndex(p - 1) + 1]>>

\* C34: for every number of nodes created one after another with Add API
\* Node, the call template the queue executor dispatches for a node is the
\* template whose name the canvas assigned to that node as its label at
\* creation.
C34_TemplateIsLabel ==
    CreatedOneAfterAnother =>
        \A q \in CreateExecutionQueue(nodes) :
            \A p \in 1..Len(q) : TemplateIsLabel(q, p)

\* up to as many API nodes as there are templates the two agree
TemplateIsLabelUpToFour ==
    (CreatedOneAfterAnother /\ Cardinality(ApiNodes) <= NumEndpoints) =>
        \A q \in CreateExecutionQueue(nodes) :
            \A p \in 1..Len(q) : TemplateIsLabel(q, p)

\* four API nodes created one after another
FourApiNodes == CreatedOneAfterAnother /\ Cardinality(ApiNodes) = NumEndpoints

=============================================================================
